---- MODULE Spec2Model ----
(***************************************************************************)
(* Hybrid anomaly detection engine of the greenhouse sensor backend:       *)
(* prediction cache, history window, rule evaluator, result combiner and   *)
(* the process bridge (backend/anomaly-detection).                         *)
(*                                                                         *)
(* Numbers.  Every sensor value, threshold and confidence is held in       *)
(* hundredths (25.0 degrees is 2500, 3.3 V is 330, confidence 0.95 is 95), *)
(* so that the comparisons of the source are exact integer comparisons.    *)
(* Health scores, priorities and counters are plain integers; the health  *)
(* score of a merged bridge response, an average, is in hundredths.        *)
(* Time is in seconds.                                                     *)
(***************************************************************************)
EXTENDS Integers, Sequences, FiniteSets

VARIABLES
    _prediction_cache,    \* dict fingerprint -> {result, timestamp}, in dict order
    _cache_max_size,      \* capacity attribute of the cache
    _data_history,        \* deque(maxlen) of ingested readings
    performance_metrics,  \* cache_hits, cache_misses, prediction_count, error_count
    models_loaded,        \* health_status['models_loaded']
    now,                  \* time.time()
    fresh,                \* number of distinct fingerprints handed to the cache API so far
    calls,                \* number of API calls made so far
    last,                 \* the last call: its name, arguments and return value
    reference,            \* an earlier call of _analyze_combined_results, kept to compare
    threads               \* the threads inside the service: position and locals of each

vars == <<_prediction_cache, _cache_max_size, _data_history, performance_metrics,
          models_loaded, now, fresh, calls, last, reference, threads>>

----------------------------------------------------------------------------
(* Bounds of the model *)

MaxCacheSize == 5      \* _cache_max_size ranges up to MaxCacheSize (1000 in the source)
NKeys == 5             \* distinct fingerprints offered to the cache when it is filled
SmallKeys == 3         \* distinct fingerprints offered to the cache otherwise
MaxTicks == 2          \* the clock advances at most this many times
MaxCalls == 6          \* API calls per run (caps the counters)

(* Program constants *)

_cache_ttl == 300      \* seconds
EvictDivisor == 5      \* remove_count = _cache_max_size // 5

\* the clock is observed every half TTL
TickStep == _cache_ttl \div 2

----------------------------------------------------------------------------
(* Generic helpers *)

Max2(a, b) == IF a >= b THEN a ELSE b
Min2(a, b) == IF a <= b THEN a ELSE b
Abs(x) == IF x < 0 THEN -x ELSE x

RECURSIVE SumSeq(_)
SumSeq(s) == IF s = <<>> THEN 0 ELSE Head(s) + SumSeq(Tail(s))

\* Python's None as a return value
None == [kind |-> "none"]

\* Python's None where a number is expected
NoneVal == -999999999

----------------------------------------------------------------------------
(* Prediction cache: anomaly_api.py, _get_cached_prediction,               *)
(* _store_cached_prediction, clear_cache.  The dict is a sequence of       *)
(* entries in dict order: assigning to a present key keeps its position,   *)
(* a new key goes to the end.                                              *)

CacheKeys(c) == {c[i].key : i \in 1..Len(c)}

CacheEntry(c, k) == c[CHOOSE i \in 1..Len(c) : c[i].key = k]

CacheDelete(c, ks) == SelectSeq(c, LAMBDA e : e.key \notin ks)

\* position (from 0) of entry i in sorted(cache.items(), key=timestamp); sorted() is stable
SortRank(c, i) ==
    Cardinality({j \in 1..Len(c) :
        \/ c[j].timestamp < c[i].timestamp
        \/ (c[j].timestamp = c[i].timestamp /\ j < i)})

SortedCache(c) ==
    [r \in 1..Len(c) |-> c[CHOOSE i \in 1..Len(c) : SortRank(c, i) = r - 1]]

\* the keys deleted by the cleaning step of _store_cached_prediction
EvictNewest(c, size) ==
    IF Len(c) >= size
    THEN {SortedCache(c)[Len(c) + 1 - i].key : i \in 1..(size \div EvictDivisor)}
    ELSE {}

EvictedKeys(c, size) ==
    IF Len(c) >= size
    THEN {SortedCache(c)[i].key : i \in 1..(size \div EvictDivisor)}
    ELSE {}

\* self._prediction_cache[cache_key] = {'result': result, 'timestamp': time.time()}
CachePut(c, k, result, t) ==
    IF k \in CacheKeys(c)
    THEN [i \in 1..Len(c) |->
            IF c[i].key = k
            THEN [key |-> k, result |-> result, timestamp |-> t]
            ELSE c[i]]
    ELSE Append(c, [key |-> k, result |-> result, timestamp |-> t])

\* an entry whose 'timestamp' holds None: an unexpected cache state
CorruptEntry(entry) == entry.timestamp = NoneVal

\* sorted(..., key=timestamp) compares a None timestamp: TypeError
StoreRaises(c, size) ==
    /\ Len(c) >= size
    /\ Len(c) >= 2
    /\ \E i \in 1..Len(c) : CorruptEntry(c[i])

\* an exception inside the try block is logged and the cache is left as it is
StoreCachedPrediction(c, size, k, result, t) ==
    IF StoreRaises(c, size)
    THEN c
    ELSE CachePut(CacheDelete(c, EvictedKeys(c, size)), k, result, t)

TTLValidInclusive(entry, t) == t - entry.timestamp <= _cache_ttl

\* time.time() - cached_data['timestamp'] < self._cache_ttl
TTLValid(entry, t) == t - entry.timestamp < _cache_ttl

\* time.time() - cached_data['timestamp'] on a None timestamp: TypeError
LookupRaises(c, k) == k \in CacheKeys(c) /\ CorruptEntry(CacheEntry(c, k))

\* a lookup that renews the entry it finds
GetCachedRefreshing(c, pm, k, t) ==
    IF k \in CacheKeys(c) /\ ~LookupRaises(c, k) /\ TTLValid(CacheEntry(c, k), t)
    THEN [cache |-> CachePut(c, k, CacheEntry(c, k).result, t),
          metrics |-> [pm EXCEPT !.cache_hits = @ + 1],
          ret |-> CacheEntry(c, k).result]
    ELSE [cache |-> c, metrics |-> [pm EXCEPT !.cache_misses = @ + 1], ret |-> None]

\* returns the cache, the metrics and the value returned by _get_cached_prediction; an
\* exception inside the try block is logged and None is returned
GetCachedPrediction(c, pm, k, t) ==
    IF LookupRaises(c, k)
    THEN [cache |-> c, metrics |-> pm, ret |-> None]
    ELSE
    IF k \in CacheKeys(c)
    THEN IF TTLValid(CacheEntry(c, k), t)
         THEN [cache |-> c,
               metrics |-> [pm EXCEPT !.cache_hits = @ + 1],
               ret |-> CacheEntry(c, k).result]
         ELSE [cache |-> CacheDelete(c, {k}),
               metrics |-> [pm EXCEPT !.cache_misses = @ + 1],
               ret |-> None]
    ELSE [cache |-> c,
          metrics |-> [pm EXCEPT !.cache_misses = @ + 1],
          ret |-> None]

----------------------------------------------------------------------------
(* Initial state: AnomalyDetectionAPI.__init__ *)

InitMetrics ==
    [cache_hits |-> 0, cache_misses |-> 0, prediction_count |-> 0, error_count |-> 0]

Idle == [op |-> "init"]

InitCommon ==
    /\ _prediction_cache = <<>>
    /\ _data_history = <<>>
    /\ performance_metrics = InitMetrics
    /\ now = 0
    /\ fresh = 0
    /\ calls = 0
    /\ reference = <<>>
    /\ threads = <<>>

----------------------------------------------------------------------------
(* The cache API called directly.  Fingerprints are opaque strings, so the *)
(* distinct ones are numbered in the order of their first use: a call      *)
(* names a fingerprint already used or the next unused one.                *)

Verdicts == {1, 2}

Verdict(v) == [kind |-> "verdict", id |-> v]

OfferedKeys(n) == 1..Min2(fresh + 1, n)

Called == calls < MaxCalls /\ calls' = calls + 1

\* _store_cached_prediction(k, v)
StoreCached(k, v) ==
    /\ Called
    /\ last' = [op |-> "store", key |-> k, arg |-> v,
                evicted |-> EvictedKeys(_prediction_cache, _cache_max_size)]
    /\ _prediction_cache' =
          StoreCachedPrediction(_prediction_cache, _cache_max_size, k, Verdict(v), now)
    /\ fresh' = Max2(fresh, k)
    /\ UNCHANGED <<_cache_max_size, _data_history, performance_metrics, models_loaded, now,
                   reference, threads>>

\* _get_cached_prediction(k)
GetCached(k) ==
    /\ Called
    /\ LET g == GetCachedPrediction(_prediction_cache, performance_metrics, k, now)
       IN /\ _prediction_cache' = g.cache
          /\ performance_metrics' = g.metrics
          /\ last' = [op |-> "get", key |-> k, ret |-> g.ret,
                      present |-> k \in CacheKeys(_prediction_cache)]
    /\ UNCHANGED <<_cache_max_size, _data_history, models_loaded, now, fresh, reference,
                   threads>>

\* clear_cache()
ClearCache ==
    /\ Called
    /\ _prediction_cache' = <<>>
    /\ last' = [op |-> "clear"]
    /\ UNCHANGED <<_cache_max_size, _data_history, performance_metrics, models_loaded,
                   now, fresh, reference, threads>>

\* the wall clock moves between two calls
Tick ==
    /\ now < MaxTicks * TickStep
    /\ now' = now + TickStep
    /\ last' = [op |-> "tick"]
    /\ UNCHANGED <<_prediction_cache, _cache_max_size, _data_history,
                   performance_metrics, models_loaded, fresh, calls, reference, threads>>

\* any capacity, a few fingerprints, two verdicts
InitCache ==
    /\ InitCommon
    /\ last = Idle
    /\ models_loaded = FALSE
    /\ _cache_max_size \in 1..MaxCacheSize

NextCache ==
    \/ \E k \in OfferedKeys(SmallKeys), v \in Verdicts : StoreCached(k, v)
    \/ \E k \in OfferedKeys(SmallKeys) : GetCached(k)
    \/ ClearCache
    \/ Tick

SpecCache == InitCache /\ [][NextCache]_vars

\* the capacities at which the cleaning step removes an entry, enough fingerprints
\* to fill the cache
InitEvict ==
    /\ InitCommon
    /\ last = Idle
    /\ models_loaded = FALSE
    /\ _cache_max_size \in EvictDivisor..MaxCacheSize

NextEvict ==
    \/ \E k \in OfferedKeys(NKeys) : StoreCached(k, 1)
    \/ \E k \in OfferedKeys(NKeys) : GetCached(k)
    \/ ClearCache
    \/ Tick

SpecEvict == InitEvict /\ [][NextEvict]_vars

----------------------------------------------------------------------------
(* Claims about the prediction cache *)

IsCall(name) == last'.op = name /\ calls' = calls + 1

C2_CacheRoundTrip ==
    [][ /\ IsCall("get") =>
            LET k == last'.key IN
            IF /\ k \in CacheKeys(_prediction_cache)
               /\ now - CacheEntry(_prediction_cache, k).timestamp < 300
            THEN /\ last'.ret = CacheEntry(_prediction_cache, k).result
                 /\ _prediction_cache' = _prediction_cache
            ELSE /\ last'.ret = None
                 /\ k \notin CacheKeys(_prediction_cache')
        /\ IsCall("store") =>
            /\ last'.key \in CacheKeys(_prediction_cache')
            /\ CacheEntry(_prediction_cache', last'.key).result = Verdict(last'.arg)
            /\ CacheEntry(_prediction_cache', last'.key).timestamp = now
        /\ (last.op = "store" /\ IsCall("get") /\ last'.key = last.key) =>
            last'.ret = Verdict(last.arg)
        /\ ~IsCall("store") =>
            \A k \in CacheKeys(_prediction_cache') :
                /\ k \in CacheKeys(_prediction_cache)
                /\ CacheEntry(_prediction_cache', k) = CacheEntry(_prediction_cache, k)
      ]_vars

\* C2 witness: a lookup found an entry whose TTL had elapsed and answered with a miss
C2_Witness ==
    /\ last.op = "get"
    /\ last.present
    /\ last.ret = None
    /\ performance_metrics.cache_hits > 0

\* C3: a store into a cache holding at least _cache_max_size entries removes exactly
\* floor(_cache_max_size / 5) entries, then inserts; no surviving entry is older than an
\* evicted one.
C3_EvictsOldest ==
    [][ (IsCall("store") /\ Len(_prediction_cache) >= _cache_max_size) =>
            LET old == _prediction_cache
                ev  == last'.evicted
            IN /\ ev \subseteq CacheKeys(old)
               /\ Cardinality(ev) = _cache_max_size \div 5
               /\ \A e \in ev : \A s \in CacheKeys(old) \ ev :
                      CacheEntry(old, s).timestamp >= CacheEntry(old, e).timestamp
               /\ CacheKeys(_prediction_cache') = (CacheKeys(old) \ ev) \cup {last'.key}
               /\ \A s \in (CacheKeys(old) \ ev) \ {last'.key} :
                      CacheEntry(_prediction_cache', s) = CacheEntry(old, s)
      ]_vars

\* C3 witness: a store evicted an entry and left a strictly newer pre-existing one
C3_Witness ==
    /\ last.op = "store"
    /\ last.evicted # {}
    /\ \E i \in 1..Len(_prediction_cache) :
          /\ _prediction_cache[i].key # last.key
          /\ _prediction_cache[i].timestamp > 0
          /\ _prediction_cache[i].timestamp < now

----------------------------------------------------------------------------
(* Readings.  A reading is a dict: a function from the field names it      *)
(* holds to their values.  A field holding Python's None holds NoneVal.    *)

\* dict.get(key, default)
DictGet(d, key, default) == IF key \in DOMAIN d THEN d[key] ELSE default

\* an optional value: <<>> is None, <<x>> is x
NoPrev == <<>>
Some(x) == <<x>>

\* bool(previous_data): None and the empty dict are falsy
Truthy(prev) == prev # NoPrev /\ DOMAIN prev[1] # {}

\* the last n elements of a list: lst[-n:]
LastN(lst, n) == SubSeq(lst, Max2(1, Len(lst) - n + 1), Len(lst))

----------------------------------------------------------------------------
(* Rule evaluator: anomaly_models.py, RuleBasedAnomalyDetector *)

\* self.rules, in dict order
RuleNames ==
    << "sudden_drop", "sudden_spike", "vpd_too_low", "low_voltage", "dew_point_close",
       "battery_depleted", "sensor_failure", "high_fluctuation", "environmental_stress",
       "gradual_drift" >>

RuleAlertLevel(rule) ==
    IF rule \in {"sudden_drop", "vpd_too_low", "dew_point_close", "battery_depleted",
                 "sensor_failure"}
    THEN "red" ELSE "yellow"

RulePriority(rule) ==
    IF rule \in {"sudden_drop", "vpd_too_low", "dew_point_close", "battery_depleted",
                 "sensor_failure"}
    THEN 3
    ELSE IF rule = "gradual_drift" THEN 1 ELSE 2

\* self.thresholds, in hundredths
thresholds ==
    [vpd_critical |-> 30, vpd_warning |-> 50, dew_point_critical |-> 120,
     voltage_critical |-> 270, voltage_warning |-> 290,
     battery_critical |-> 1200, battery_warning |-> 2000,
     temp_change_critical |-> 1000, temp_change_warning |-> 600,
     humidity_extreme_high |-> 9600, humidity_extreme_low |-> 2000,
     co2_critical_high |-> 200000, co2_warning_high |-> 160000]

\* _safe_get_numeric_value(data, key), default 0: None and absent give the default
SafeGetNumericValue(data, key) ==
    IF key \in DOMAIN data /\ data[key] # NoneVal THEN data[key] ELSE 0

\* 10^4 * 0.6108 * exp(17.27 T / (T + 237.3)) at the temperatures of the model
SaturationVaporPressure(t) ==
    CASE t = 900 -> 11481
      [] t = 950 -> 11874
      [] t = 1800 -> 20640
      [] t = 2500 -> 31678
      [] t = 2504 -> 31753
      [] t = 3000 -> 42431
      [] t = 4600 -> 100863

\* 10^4 * ln(humidity / 100) at the humidities of the model
LogHumidity(h) ==
    CASE h = 6500 -> -4308
      [] h = 6600 -> -4155
      [] h = 9100 -> -943
      [] h = 9700 -> -305
      [] h = 10000 -> 0

\* 10^8 * (svp - svp * humidity / 100)
CalculatedVPD(t, h) == SaturationVaporPressure(t) * (10000 - h)

\* Magnus formula, a = 17.27, b = 237.7: alpha times 10^4, dew point in hundredths
CalculatedDewPoint(t, h) ==
    LET alpha == ((172700 * t) \div (23770 + t)) + LogHumidity(h)
    IN (23770 * alpha) \div (172700 - alpha)

SuddenDropBody(current_data, prev) ==
    LET current_temp == SafeGetNumericValue(current_data, "temperature")
        prev_temp == SafeGetNumericValue(prev, "temperature")
        current_voltage == SafeGetNumericValue(current_data, "voltage")
        prev_voltage == SafeGetNumericValue(prev, "voltage")
    IN \/ /\ current_temp > 0 /\ prev_temp > 0
          /\ \/ prev_temp - current_temp > thresholds.temp_change_critical
             \/ 100 * (prev_temp - current_temp) > 25 * prev_temp
       \/ /\ current_voltage > 0 /\ prev_voltage > 0
          /\ \/ prev_voltage - current_voltage > 50
             \/ 100 * (prev_voltage - current_voltage) > 20 * prev_voltage
       \/ (0 < current_voltage /\ current_voltage < thresholds.voltage_critical)

CheckSuddenDropNoGuard(current_data, previous_data, data_history) ==
    SuddenDropBody(current_data, IF previous_data = NoPrev THEN <<>> ELSE previous_data[1])

CheckSuddenDrop(current_data, previous_data, data_history) ==
    IF previous_data = NoPrev
    THEN FALSE
    ELSE SuddenDropBody(current_data, previous_data[1])

CheckSuddenSpike(current_data, previous_data, data_history) ==
    IF previous_data = NoPrev
    THEN FALSE
    ELSE LET current_temp == SafeGetNumericValue(current_data, "temperature")
             prev_temp == SafeGetNumericValue(previous_data[1], "temperature")
             current_voltage == SafeGetNumericValue(current_data, "voltage")
             current_co2 == SafeGetNumericValue(current_data, "co2")
         IN \/ /\ current_temp > 0 /\ prev_temp > 0
               /\ current_temp - prev_temp > thresholds.temp_change_critical
            \/ current_temp > 4500
            \/ current_voltage > 400
            \/ current_co2 > thresholds.co2_critical_high

CheckVpdTooLow(current_data, previous_data, data_history) ==
    LET current_vpd == SafeGetNumericValue(current_data, "vpd")
        temp == SafeGetNumericValue(current_data, "temperature")
        humidity == SafeGetNumericValue(current_data, "humidity")
    IN \/ (current_vpd > 0 /\ current_vpd < thresholds.vpd_critical)
       \/ /\ temp > 0 /\ 0 < humidity /\ humidity <= 10000
          /\ 0 < CalculatedVPD(temp, humidity)
          /\ CalculatedVPD(temp, humidity) < thresholds.vpd_critical * 1000000

CheckLowVoltage(current_data, previous_data, data_history) ==
    LET current_voltage == SafeGetNumericValue(current_data, "voltage")
        battery_level == SafeGetNumericValue(current_data, "battery_level")
    IN \/ (0 < current_voltage /\ current_voltage < thresholds.voltage_warning)
       \/ /\ 0 < current_voltage /\ current_voltage < 300
          /\ 0 < battery_level /\ battery_level < 3000

CheckDewPointClose(current_data, previous_data, data_history) ==
    LET temp == SafeGetNumericValue(current_data, "temperature")
        dew_point == SafeGetNumericValue(current_data, "dew_point")
        humidity == SafeGetNumericValue(current_data, "humidity")
    IN \/ /\ temp > 0 /\ dew_point > 0
          /\ temp - dew_point < thresholds.dew_point_critical
       \/ /\ temp > 0 /\ 0 < humidity /\ humidity <= 10000
          /\ temp - CalculatedDewPoint(temp, humidity) < thresholds.dew_point_critical
       \/ (humidity > 9500 /\ temp < 2500)

CheckBatteryDepleted(current_data, previous_data, data_history) ==
    LET battery_level == SafeGetNumericValue(current_data, "battery_level")
        voltage == SafeGetNumericValue(current_data, "voltage")
    IN \/ (battery_level > 0 /\ battery_level < thresholds.battery_critical)
       \/ (0 < voltage /\ voltage < 230)
       \/ /\ Truthy(previous_data)
          /\ LET prev_battery == SafeGetNumericValue(previous_data[1], "battery_level")
             IN /\ prev_battery > 0 /\ battery_level > 0
                /\ prev_battery - battery_level > 2000

\* failure_values = [0, -999, 999, -1, 9999, None]; an absent field reads as None
SensorFailed(current_data, sensor) ==
    LET value == DictGet(current_data, sensor, NoneVal)
    IN IF value \in {0, -99900, 99900, -100, 999900, NoneVal}
       THEN TRUE
       ELSE CASE sensor = "temperature" -> value < -5000 \/ value > 8000
              [] sensor = "humidity" -> value < 0 \/ value > 10000
              [] sensor = "voltage" -> value <= 0 \/ value > 550

critical_sensors == {"temperature", "humidity", "voltage"}

CheckSensorFailure(current_data, previous_data, data_history) ==
    \/ Cardinality({sensor \in critical_sensors : SensorFailed(current_data, sensor)}) >= 2
    \/ /\ Len(data_history) >= 5
       /\ \E sensor \in critical_sensors :
             LET recent_data == LastN(data_history, 5)
                 values == [i \in 1..5 |-> SafeGetNumericValue(recent_data[i], sensor)]
             IN /\ Cardinality({values[i] : i \in 1..5}) = 1
                /\ values[1] # 0

\* the relative change above which a sensor counts as fluctuating, in percent
FluctuationPercent(sensor) ==
    CASE sensor = "temperature" -> 15
      [] sensor = "humidity" -> 20
      [] sensor = "voltage" -> 25
      [] sensor = "co2" -> 30

CheckHighFluctuation(current_data, previous_data, data_history) ==
    IF previous_data = NoPrev
    THEN FALSE
    ELSE Cardinality({sensor \in {"temperature", "humidity", "voltage", "co2"} :
            LET current_val == SafeGetNumericValue(current_data, sensor)
                prev_val == SafeGetNumericValue(previous_data[1], sensor)
            IN /\ current_val > 0 /\ prev_val > 0
               /\ 100 * Abs(current_val - prev_val) > FluctuationPercent(sensor) * prev_val
         }) >= 2

CheckEnvironmentalStress(current_data, previous_data, data_history) ==
    LET temp == SafeGetNumericValue(current_data, "temperature")
        humidity == SafeGetNumericValue(current_data, "humidity")
        vpd == SafeGetNumericValue(current_data, "vpd")
        co2 == SafeGetNumericValue(current_data, "co2")
        factor(b) == IF b THEN 1 ELSE 0
    IN factor(humidity > thresholds.humidity_extreme_high /\ temp < 1800)
       + factor(humidity < thresholds.humidity_extreme_low /\ temp > 3800)
       + factor(0 < vpd /\ vpd < thresholds.vpd_warning)
       + factor(co2 > thresholds.co2_warning_high)
       + factor(temp > 4200 \/ temp < 800)
       >= 2

\* drift threshold per reading, in hundredths
DriftThreshold(sensor) ==
    CASE sensor = "temperature" -> 80
      [] sensor = "ec" -> 15
      [] sensor = "ph" -> 20

\* np.polyfit(x, values, 1)[0] with x = 0..n-1 is SlopeNum / SlopeDen
SlopeNum(values) ==
    LET n == Len(values)
    IN n * SumSeq([i \in 1..n |-> (i - 1) * values[i]])
       - SumSeq([i \in 1..n |-> i - 1]) * SumSeq(values)

SlopeDen(values) ==
    LET n == Len(values)
        sx == SumSeq([i \in 1..n |-> i - 1])
    IN n * SumSeq([i \in 1..n |-> (i - 1) * (i - 1)]) - sx * sx

CheckGradualDrift(current_data, previous_data, data_history) ==
    /\ Len(data_history) >= 8
    /\ \E sensor \in {"temperature", "ec", "ph"} :
          LET recent_data == LastN(data_history, 8)
              all_values == [i \in 1..8 |-> SafeGetNumericValue(recent_data[i], sensor)]
              values == SelectSeq(all_values, LAMBDA v : v > -10000)
          IN /\ Len(values) >= 5
             /\ Abs(SlopeNum(values)) > DriftThreshold(sensor) * SlopeDen(values)

\* rule_config['condition'](current_data, previous_data, full_data_stream)
RuleCondition(rule, current_data, previous_data, data_history) ==
    CASE rule = "sudden_drop" -> CheckSuddenDrop(current_data, previous_data, data_history)
      [] rule = "sudden_spike" -> CheckSuddenSpike(current_data, previous_data, data_history)
      [] rule = "vpd_too_low" -> CheckVpdTooLow(current_data, previous_data, data_history)
      [] rule = "low_voltage" -> CheckLowVoltage(current_data, previous_data, data_history)
      [] rule = "dew_point_close" ->
            CheckDewPointClose(current_data, previous_data, data_history)
      [] rule = "battery_depleted" ->
            CheckBatteryDepleted(current_data, previous_data, data_history)
      [] rule = "sensor_failure" ->
            CheckSensorFailure(current_data, previous_data, data_history)
      [] rule = "high_fluctuation" ->
            CheckHighFluctuation(current_data, previous_data, data_history)
      [] rule = "environmental_stress" ->
            CheckEnvironmentalStress(current_data, previous_data, data_history)
      [] rule = "gradual_drift" ->
            CheckGradualDrift(current_data, previous_data, data_history)

\* anomalies.sort(key=priority, reverse=True): stable, so registry order within a priority
SortByPriority(rules) ==
    SelectSeq(rules, LAMBDA r : RulePriority(r) = 3)
    \o SelectSeq(rules, LAMBDA r : RulePriority(r) = 2)
    \o SelectSeq(rules, LAMBDA r : RulePriority(r) = 1)

\* previous_data: data_history[-2] of the history if one is given and non-empty, else of
\* the data stream
PreviousData(stream) ==
    IF Len(stream) > 1 THEN Some(stream[Len(stream) - 1]) ELSE NoPrev

\* the outcome of one pass of the loop over self.rules: the predicate answers, or an
\* exception leaves it (raising holds the rules whose predicate raises)
RuleOutcome(rule, current_data, previous_data, data_history, raising) ==
    IF rule \in raising
    THEN "raise"
    ELSE IF RuleCondition(rule, current_data, previous_data, data_history)
         THEN "true" ELSE "false"

\* a loop that gives up at the first exception: detect_anomalies would return []
RuleLoopAborts(current_data, previous_data, data_history, raising) ==
    IF \E rule \in raising : rule \in {RuleNames[i] : i \in 1..Len(RuleNames)}
    THEN <<>>
    ELSE SelectSeq(RuleNames,
            LAMBDA rule : RuleOutcome(rule, current_data, previous_data, data_history,
                                      raising) = "true")

\* for rule_name, rule_config in self.rules.items(): try ... except: continue
RuleLoop(current_data, previous_data, data_history, raising) ==
    SelectSeq(RuleNames,
        LAMBDA rule : RuleOutcome(rule, current_data, previous_data, data_history,
                                  raising) = "true")

\* RuleBasedAnomalyDetector.detect_anomalies(sensor_data, data_history) with the rules
\* of raising made to raise: the types of the anomalies returned, in order.  sensor_data
\* is [form, items]: a dict (one item) or a list; data_history is [given, items]: None or
\* a list.
DetectAnomaliesRaising(sensor_data, data_history, raising) ==
    IF sensor_data.items = <<>>
    THEN <<>>
    ELSE LET data_stream == sensor_data.items
             current_data == data_stream[Len(data_stream)]
             use_history == data_history.given /\ Len(data_history.items) > 0
             full_data_stream == IF use_history THEN data_history.items ELSE data_stream
             previous_data == PreviousData(full_data_stream)
         IN SortByPriority(RuleLoop(current_data, previous_data, full_data_stream, raising))

\* detect_anomalies with the predicates of the registry, none of which raises
DetectAnomalies(sensor_data, data_history) ==
    DetectAnomaliesRaising(sensor_data, data_history, {})

----------------------------------------------------------------------------
(* The rule evaluator on its own: detect_anomalies applied to readings drawn *)
(* from a product of field values, as a dict or as a list, with the history  *)
(* absent, empty or given.                                                   *)

Absent == NoneVal - 1

\* the dict holding the fields of a record that are not Absent
MakeReading(full) == [k \in {f \in DOMAIN full : full[f] # Absent} |-> full[k]]

RuleReadings ==
    {MakeReading(full) : full \in
        [temperature : {Absent, NoneVal, 900, 2500, 4600},
         humidity : {Absent, 6500, 9700},
         voltage : {Absent, 330, 200, 450},
         battery_level : {Absent, 8500, 500},
         co2 : {Absent, 250000},
         vpd : {Absent, 20}]}

Normal == MakeReading([temperature |-> 2500, humidity |-> 6500, voltage |-> 330,
                       battery_level |-> 8500])

Hot == MakeReading([temperature |-> 3000, humidity |-> 9100, voltage |-> 450,
                    battery_level |-> 8500])

\* eight readings whose temperature rises by one degree per reading
Drifting == [i \in 1..8 |-> MakeReading([temperature |-> 2000 + 100 * i,
                                         humidity |-> 6500 + i, voltage |-> 330 + i])]

NoHistory == [given |-> FALSE, items |-> <<>>]
GivenHistory(items) == [given |-> TRUE, items |-> items]

AsDict(reading) == [form |-> "dict", items |-> <<reading>>]
AsList(readings) == [form |-> "list", items |-> readings]

\* the arguments of a call that is about to be made
Input(args) == [op |-> "input", args |-> args]

RuleInputs ==
    {[sensor_data |-> sensor_data, data_history |-> data_history] :
        sensor_data \in UNION {{AsDict(reading), AsList(<<reading>>),
                                AsList(<<Normal, reading>>)} : reading \in RuleReadings},
        data_history \in {NoHistory, GivenHistory(<<>>),
                          GivenHistory(<<Normal, Hot>>), GivenHistory(<<Hot, Normal>>),
                          GivenHistory(Drifting)}}

EvaluateRules ==
    /\ last.op = "input"
    /\ last' = [op |-> "rules", sensor_data |-> last.args.sensor_data,
                data_history |-> last.args.data_history,
                anomalies |-> DetectAnomalies(last.args.sensor_data,
                                              last.args.data_history)]
    /\ UNCHANGED <<_prediction_cache, _cache_max_size, _data_history, performance_metrics,
                   models_loaded, now, fresh, calls, reference, threads>>

InitRules ==
    /\ InitCommon
    /\ models_loaded = FALSE
    /\ _cache_max_size = MaxCacheSize
    /\ last \in {Input(args) : args \in RuleInputs}

NextRules == EvaluateRules

SpecRules == InitRules /\ [][NextRules]_vars

DeltaRules == {"sudden_drop", "sudden_spike", "gradual_drift"}

Returned(anomalies) == {anomalies[i] : i \in 1..Len(anomalies)}

\* C8: a single reading evaluated with no previous reading and with the history absent
\* or empty never yields sudden_drop, sudden_spike or gradual_drift, whatever its fields.
C8_NoDeltaWithoutHistory ==
    (/\ last.op = "rules"
     /\ Len(last.sensor_data.items) = 1
     /\ (~last.data_history.given \/ last.data_history.items = <<>>))
    => Returned(last.anomalies) \cap DeltaRules = {}

\* a lone reading whose voltage is under the critical voltage and whose temperature is over
\* the spike limit: the other rules report it, the delta rules do not
C8_Witness ==
    /\ last.op = "rules"
    /\ Len(last.sensor_data.items) = 1
    /\ ~last.data_history.given
    /\ SafeGetNumericValue(last.sensor_data.items[1], "voltage") = 200
    /\ SafeGetNumericValue(last.sensor_data.items[1], "temperature") = 4600
    /\ "low_voltage" \in Returned(last.anomalies)
    /\ Returned(last.anomalies) \cap DeltaRules = {}

----------------------------------------------------------------------------
(* Detection results and the combiner: anomaly_api.py *)

\* one entry of a rule or classifier result list; an absent key holds "" or 0
Result(is_anomaly, anomaly_type, alert_level, priority, confidence, error) ==
    [is_anomaly |-> is_anomaly, anomaly_type |-> anomaly_type, alert_level |-> alert_level,
     priority |-> priority, confidence |-> confidence, error |-> error]

\* the entry detect_anomalies_rules builds for a triggered rule (confidence 0.95)
RuleHit(rule) == Result(TRUE, rule, RuleAlertLevel(rule), RulePriority(rule), 95, "")

\* 'Sensor operating normally'
RuleNormal == Result(FALSE, "", "", 0, 95, "")

\* {'is_anomaly': False, 'error': ...}
ErrorResult(error) == Result(FALSE, "", "", 0, 0, error)

\* an entry of _process_ml_batch
MlResult(is_anomaly, confidence) == Result(is_anomaly, "", "", 0, confidence, "")

Anomalies(results) == SelectSeq(results, LAMBDA r : r.is_anomaly)

RECURSIVE MaxSeq(_, _)
\* max(values, default=...)
MaxSeq(values, default) ==
    IF values = <<>> THEN default
    ELSE IF Tail(values) = <<>> THEN Head(values)
    ELSE Max2(Head(values), MaxSeq(Tail(values), default))

MapSeq(s, Op(_)) == [i \in 1..Len(s) |-> Op(s[i])]

AlertLevelRulesOnly(rule_anomalies, ml_anomalies) ==
    IF \E i \in 1..Len(rule_anomalies) : rule_anomalies[i].alert_level = "red"
    THEN "red"
    ELSE IF \E i \in 1..Len(rule_anomalies) : rule_anomalies[i].alert_level = "yellow"
    THEN "yellow"
    ELSE "green"

\* the severity branch of _analyze_combined_results
AlertLevel(rule_anomalies, ml_anomalies) ==
    IF rule_anomalies # <<>>
    THEN IF \E i \in 1..Len(rule_anomalies) : rule_anomalies[i].alert_level = "red"
         THEN "red"
         ELSE IF \E i \in 1..Len(rule_anomalies) : rule_anomalies[i].alert_level = "yellow"
         THEN "yellow"
         ELSE "green"
    ELSE IF ml_anomalies # <<>> THEN "yellow" ELSE "green"

RiskLevel(alert_level) ==
    CASE alert_level = "red" -> "high"
      [] alert_level = "yellow" -> "medium"
      [] alert_level = "green" -> "low"

PriorityScore(rule_anomalies, ml_anomalies) ==
    IF rule_anomalies # <<>>
    THEN IF AlertLevel(rule_anomalies, ml_anomalies) = "green"
         THEN 0
         ELSE MaxSeq(MapSeq(rule_anomalies, LAMBDA r : r.priority), 0)
    ELSE IF ml_anomalies # <<>> THEN 2 ELSE 0

\* the condition of the historical trend adjustment on one reading of the window
ConsistentIssue(data) ==
    \/ DictGet(data, "temperature", 2500) > 4000
    \/ DictGet(data, "temperature", 2500) < 1000
    \/ DictGet(data, "humidity", 6500) > 9000
    \/ DictGet(data, "voltage", 330) < 280

\* the comparison of the trend adjustment raises on a None operand; "or" stops at the
\* first operand that is true
IssueCheckRaises(data) ==
    LET temp == DictGet(data, "temperature", 2500)
        humidity == DictGet(data, "humidity", 6500)
        voltage == DictGet(data, "voltage", 330)
    IN \/ temp = NoneVal
       \/ /\ ~(temp > 4000 \/ temp < 1000)
          /\ \/ humidity = NoneVal
             \/ (~(humidity > 9000) /\ voltage = NoneVal)

\* the deduction of one rule anomaly
Deduction(anomaly) ==
    CASE anomaly.alert_level = "red" -> anomaly.priority * 15
      [] anomaly.alert_level = "yellow" -> anomaly.priority * 8
      [] OTHER -> 0

HealthScoreNoTrend(rule_anomalies, ml_anomalies, data_history) ==
    Max2(0, Min2(100,
        100 - SumSeq(MapSeq(rule_anomalies, Deduction)) - Len(ml_anomalies) * 5))

HealthScoreWholeHistory(rule_anomalies, ml_anomalies, data_history) ==
    LET score == 100 - SumSeq(MapSeq(rule_anomalies, Deduction)) - Len(ml_anomalies) * 5
        issues == Cardinality({i \in 1..Len(data_history) :
                                  ConsistentIssue(data_history[i])})
    IN Max2(0, Min2(100, IF issues >= 3 THEN score - 15 ELSE score))

\* a score that is not clamped to 0..100
HealthScoreUnclamped(rule_anomalies, ml_anomalies, data_history) ==
    100 - SumSeq(MapSeq(rule_anomalies, Deduction)) - Len(ml_anomalies) * 5

\* _calculate_system_health_score, reading the history window
CalculateSystemHealthScore(rule_anomalies, ml_anomalies, data_history) ==
    LET score == 100 - SumSeq(MapSeq(rule_anomalies, Deduction)) - Len(ml_anomalies) * 5
    IN IF Len(data_history) >= 5
       THEN LET recent_data == LastN(data_history, 5)
                consistent_issues ==
                    Cardinality({i \in 1..5 : ConsistentIssue(recent_data[i])})
            IN IF \E i \in 1..5 : IssueCheckRaises(recent_data[i])
               THEN 50
               ELSE Max2(0, Min2(100, IF consistent_issues >= 3 THEN score - 15 ELSE score))
       ELSE Max2(0, Min2(100, score))

PriorityLabel(priority) ==
    IF priority >= 3 THEN "high" ELSE IF priority >= 2 THEN "medium" ELSE "low"

Recommendation(anomaly) ==
    [type |-> anomaly.anomaly_type, priority |-> PriorityLabel(anomaly.priority)]

\* every recommendation, in the order of the rule anomalies, none left out
RecommendationsUntruncated(rule_anomalies, ml_anomalies) ==
    IF rule_anomalies = <<>>
    THEN <<[type |-> "preventive_maintenance", priority |-> "low"]>>
    ELSE MapSeq(rule_anomalies, Recommendation)

\* _generate_enhanced_recommendations: high, medium, low; at most five
GenerateEnhancedRecommendations(rule_anomalies, ml_anomalies) ==
    LET recs == MapSeq(rule_anomalies, Recommendation)
        high == SelectSeq(recs, LAMBDA r : r.priority = "high")
        medium == SelectSeq(recs, LAMBDA r : r.priority = "medium")
        ml_rec == IF ml_anomalies # <<>> /\ rule_anomalies = <<>>
                  THEN <<[type |-> "general_anomaly", priority |-> "medium"]>>
                  ELSE <<>>
        low == SelectSeq(recs, LAMBDA r : r.priority = "low")
        recommendations == high \o medium \o ml_rec \o low
    IN IF recommendations = <<>>
       THEN <<[type |-> "preventive_maintenance", priority |-> "low"]>>
       ELSE SubSeq(recommendations, 1, Min2(5, Len(recommendations)))

\* _analyze_combined_results; the combined confidence is in thousandths
AnalyzeCombinedResults(rule_results, ml_results, data_history) ==
    LET rule_anomalies == Anomalies(rule_results)
        ml_anomalies == Anomalies(ml_results)
        rule_confidence == MaxSeq(MapSeq(rule_anomalies, LAMBDA r : r.confidence), 0)
        ml_confidence == MaxSeq(MapSeq(ml_anomalies, LAMBDA r : r.confidence), 0)
        alert_level == AlertLevel(rule_anomalies, ml_anomalies)
    IN [rule_anomalies_found |-> Len(rule_anomalies) > 0,
        ml_anomalies_found |-> Len(ml_anomalies) > 0,
        total_anomalies |-> Len(rule_anomalies) + Len(ml_anomalies),
        alert_level |-> alert_level,
        risk_level |-> RiskLevel(alert_level),
        priority_score |-> PriorityScore(rule_anomalies, ml_anomalies),
        health_score |-> CalculateSystemHealthScore(rule_anomalies, ml_anomalies,
                                                    data_history),
        confidence_scores |-> [rule_based |-> rule_confidence, ml_based |-> ml_confidence,
                               combined |-> rule_confidence * 7 + ml_confidence * 3],
        recommendations |-> GenerateEnhancedRecommendations(rule_anomalies, ml_anomalies)]

----------------------------------------------------------------------------
(* The combiner on its own: _analyze_combined_results applied to rule and   *)
(* classifier result lists drawn from bounded sets, in a service whose      *)
(* history window holds one of several contents.                            *)

MaxRuleHits == 2
MaxMlResults == 2

Cold1 == MakeReading([temperature |-> 900, humidity |-> 6500, voltage |-> 330,
                      battery_level |-> 8500])

Cold2 == MakeReading([temperature |-> 950, humidity |-> 6600, voltage |-> 331,
                      battery_level |-> 8400])

AllOut == MakeReading([temperature |-> 4600, humidity |-> 9700, voltage |-> 200])

NoneTemp == MakeReading([temperature |-> NoneVal, humidity |-> 6500, voltage |-> 330])

\* the result list detect_anomalies_rules returns for the rules that triggered
RuleResults(triggered) ==
    IF triggered = <<>> THEN <<RuleNormal>> ELSE MapSeq(triggered, RuleHit)

CombineRuleResults ==
    {RuleResults(SortByPriority(SelectSeq(RuleNames, LAMBDA r : r \in S))) :
        S \in {T \in SUBSET Returned(RuleNames) :
                  Cardinality(T) <= MaxRuleHits \/ T = Returned(RuleNames)}}
    \cup {<<ErrorResult("Invalid sensor data")>>}

MlEntries ==
    {MlResult(FALSE, 0), MlResult(TRUE, 0), MlResult(TRUE, 100),
     ErrorResult("Processing timeout")}

CombineMlResults == UNION {[1..n -> MlEntries] : n \in 0..MaxMlResults}

CombineWindows ==
    {<<>>,
     <<AllOut, AllOut, AllOut, AllOut>>,
     <<Normal, Hot, Normal, Hot, Normal>>,
     <<Cold1, Normal, Cold2, Normal, Cold1>>,
     <<Normal, AllOut, AllOut, Normal, AllOut>>,
     <<Normal, Cold1, Normal, Cold1, NoneTemp>>,
     <<NoneTemp, Cold1, Cold2, Cold1, Normal, Hot>>}

AnalyzeCombined ==
    /\ last.op = "input"
    /\ last' = [op |-> "combine", rule_results |-> last.args.rule_results,
                ml_results |-> last.args.ml_results,
                summary |-> AnalyzeCombinedResults(last.args.rule_results,
                                                   last.args.ml_results, _data_history)]
    /\ UNCHANGED <<_prediction_cache, _cache_max_size, _data_history, performance_metrics,
                   models_loaded, now, fresh, calls, reference, threads>>

InitCombine ==
    /\ _prediction_cache = <<>>
    /\ _cache_max_size = MaxCacheSize
    /\ _data_history \in CombineWindows
    /\ performance_metrics = InitMetrics
    /\ models_loaded = TRUE
    /\ now = 0
    /\ fresh = 0
    /\ calls = 0
    /\ reference = <<>>
    /\ threads = <<>>
    /\ last \in {Input([rule_results |-> rule_results, ml_results |-> ml_results]) :
                    rule_results \in CombineRuleResults, ml_results \in CombineMlResults}

NextCombine == AnalyzeCombined

SpecCombine == InitCombine /\ [][NextCombine]_vars

Triggered(results) == {results[i] : i \in {j \in 1..Len(results) : results[j].is_anomaly}}

\* C4: the alert level is red if a triggered rule result is red; otherwise yellow if a
\* triggered rule result is yellow or a classifier result is flagged; otherwise green.
C4_AlertLevel ==
    last.op = "combine" =>
        last.summary.alert_level =
            IF \E r \in Triggered(last.rule_results) : r.alert_level = "red"
            THEN "red"
            ELSE IF \/ \E r \in Triggered(last.rule_results) : r.alert_level = "yellow"
                    \/ \E m \in Triggered(last.ml_results) : TRUE
            THEN "yellow"
            ELSE "green"

\* a red rule result with classifier results that flag nothing is red; no rule result and
\* a flagged classifier result is yellow (the second is C4_WitnessMl)
C4_Witness ==
    /\ last.op = "combine"
    /\ \E r \in Triggered(last.rule_results) : r.alert_level = "red"
    /\ last.ml_results # <<>>
    /\ Triggered(last.ml_results) = {}
    /\ last.summary.alert_level = "red"

C4_WitnessMl ==
    /\ last.op = "combine"
    /\ Triggered(last.rule_results) = {}
    /\ Triggered(last.ml_results) # {}
    /\ last.summary.alert_level = "yellow"

\* the persistent-stress condition as the specification words it: temperature, humidity
\* and voltage out of range at once
SimultaneousOutOfRange(data) ==
    /\ DictGet(data, "temperature", 2500) # NoneVal
    /\ DictGet(data, "humidity", 6500) # NoneVal
    /\ DictGet(data, "voltage", 330) # NoneVal
    /\ (DictGet(data, "temperature", 2500) > 4000 \/ DictGet(data, "temperature", 2500) < 1000)
    /\ DictGet(data, "humidity", 6500) > 9000
    /\ DictGet(data, "voltage", 330) < 280

SpecifiedHealthScore(rule_results, ml_results, data_history) ==
    LET recent == LastN(data_history, 5)
        stressed == Cardinality({i \in 1..Len(recent) : SimultaneousOutOfRange(recent[i])})
        red == SelectSeq(Anomalies(rule_results), LAMBDA r : r.alert_level = "red")
        yellow == SelectSeq(Anomalies(rule_results), LAMBDA r : r.alert_level = "yellow")
        score == 100 - SumSeq(MapSeq(red, LAMBDA r : r.priority * 15))
                     - SumSeq(MapSeq(yellow, LAMBDA r : r.priority * 8))
                     - 5 * Len(Anomalies(ml_results))
                     - (IF stressed >= 3 THEN 15 ELSE 0)
    IN Max2(0, Min2(100, score))

\* C7: the health score is the clamp to [0,100] of 100 minus 15 times the priority of
\* each red rule hit, 8 times the priority of each yellow rule hit, 5 per classifier flag
\* and 15 if at least 3 of the last 5 history readings have temperature, humidity and
\* voltage out of range at once; no other value is returned.
C7_HealthFormula ==
    last.op = "combine" =>
        last.summary.health_score =
            SpecifiedHealthScore(last.rule_results, last.ml_results, _data_history)

\* the part of C7 that holds: the score stays within [0,100]
C7_HealthRange ==
    last.op = "combine" =>
        (last.summary.health_score >= 0 /\ last.summary.health_score <= 100)

----------------------------------------------------------------------------
(* Hybrid detection: anomaly_api.py, detect_anomalies_hybrid and its callees *)

HistoryMaxLen == 5     \* length of the history window, a scaled deque(maxlen=100)

\* the bounds validate_sensor_data knows for the sensors it can reject
ValidationRange(sensor) ==
    CASE sensor = "temperature" -> <<-5000, 8000>>
      [] sensor = "humidity" -> <<0, 10000>>
      [] sensor = "voltage" -> <<0, 600>>

\* the per-reading part of validate_sensor_data
ValidReading(data) ==
    /\ \E key \in critical_sensors : key \in DOMAIN data /\ data[key] # NoneVal
    /\ \A sensor \in critical_sensors \cap DOMAIN data :
          data[sensor] # NoneVal =>
              ~(/\ ~(/\ ValidationRange(sensor)[1] <= data[sensor]
                     /\ data[sensor] <= ValidationRange(sensor)[2])
                /\ (data[sensor] < -100000 \/ data[sensor] > 100000))

\* a validation that only refuses the empty list
ValidateNonEmpty(sensor_data) == sensor_data.items # <<>>

\* validate_sensor_data(sensor_data)
ValidateSensorData(sensor_data) ==
    /\ sensor_data.items # <<>>
    /\ \A i \in 1..Len(sensor_data.items) : ValidReading(sensor_data.items[i])

\* Python's round to a multiple of unit (hundredths), ties to the even multiple
Round(value, unit) ==
    LET q == value \div unit
        r == value % unit
    IN IF 2 * r < unit THEN q * unit
       ELSE IF 2 * r > unit THEN (q + 1) * unit
       ELSE IF q % 2 = 0 THEN q * unit ELSE (q + 1) * unit

\* _generate_cache_key(sensor_data): the rounded key data the digest is taken of, or the
\* hash of the whole dict when rounding raises on a None value
GenerateCacheKey(sensor_data) ==
    IF \E key \in {"temperature", "humidity", "voltage", "battery_level", "vpd"} :
            DictGet(sensor_data, key, 0) = NoneVal
    THEN [kind |-> "hash", data |-> sensor_data]
    ELSE [kind |-> "md5",
          temp |-> Round(DictGet(sensor_data, "temperature", 0), 10),
          hum |-> Round(DictGet(sensor_data, "humidity", 0), 10),
          volt |-> Round(DictGet(sensor_data, "voltage", 0), 1),
          batt |-> Round(DictGet(sensor_data, "battery_level", 0), 100),
          vpd |-> Round(DictGet(sensor_data, "vpd", 0), 1)]

\* len(sensor_data): the number of keys of a dict, the number of items of a list
PyLen(sensor_data) ==
    IF sensor_data.form = "dict"
    THEN Cardinality(DOMAIN sensor_data.items[1])
    ELSE Len(sensor_data.items)

\* a window that never drops a reading
HistoryAppendUnbounded(history, data) == Append(history, data)

\* deque.append with maxlen
HistoryAppend(history, data) == LastN(Append(history, data), HistoryMaxLen)

\* detect_anomalies_rules(sensor_data, data_history) on a service whose window is history
DetectAnomaliesRules(sensor_data, data_history, history) ==
    IF ~ValidateSensorData(sensor_data)
    THEN <<ErrorResult("Invalid sensor data")>>
    ELSE RuleResults(DetectAnomalies(sensor_data,
            IF data_history.given THEN data_history ELSE GivenHistory(history)))

\* what the classifier does with a batch: a prediction per row, a timeout or an error
MlOk(flags) == [kind |-> "ok", flags |-> flags]
MlTimeout == [kind |-> "timeout"]
MlError == [kind |-> "error"]
MlUnavailable == [kind |-> "unavailable"]

\* a classifier that reports an anomaly where the call failed
MlBatchFlagsFailure(ml) ==
    CASE ml.kind = "ok" -> MapSeq(ml.flags, LAMBDA flag : MlResult(flag, 0))
      [] ml.kind = "timeout" -> <<MlResult(TRUE, 0)>>
      [] ml.kind = "error" -> <<MlResult(TRUE, 0)>>

\* detect_anomalies_ml_batch: the result list; a failed batch yields one error entry
DetectAnomaliesMlBatch(ml) ==
    CASE ml.kind = "ok" -> MapSeq(ml.flags, LAMBDA flag : MlResult(flag, 0))
      [] ml.kind = "timeout" -> <<ErrorResult("Processing timeout")>>
      [] ml.kind = "error" -> <<ErrorResult("batch error")>>

\* the ml_results of detect_anomalies_hybrid
MlResults(loaded, ml) ==
    IF loaded THEN DetectAnomaliesMlBatch(ml) ELSE <<ErrorResult("ML models not loaded")>>

\* the classifier outcomes possible for n readings
MlOutcomes(loaded, n) ==
    IF loaded
    THEN {MlOk(flags) : flags \in [1..n -> BOOLEAN]} \cup {MlTimeout, MlError}
    ELSE {MlUnavailable}

\* the part of the window the health score reads
Window(history) == IF Len(history) >= 5 THEN LastN(history, 5) ELSE <<>>

\* detect_anomalies_hybrid(sensor_data, data_history=None, ml_model, use_cache) on the
\* service state st = [cache, history, metrics], at time t; analysis holds the call of
\* _analyze_combined_results it made, if it made one
Hybrid(st, size, loaded, t, sensor_data, use_cache, ml) ==
    IF ~ValidateSensorData(sensor_data)
    THEN [cache |-> st.cache, history |-> st.history, metrics |-> st.metrics,
          analysis |-> <<>>, looked_up |-> FALSE, from_cache |-> FALSE,
          ret |-> [kind |-> "error", error |-> "Invalid sensor data", timestamp |-> t]]
    ELSE
    LET looked_up == use_cache /\ PyLen(sensor_data) = 1
        cache_key == GenerateCacheKey(sensor_data.items[1])
        g == IF looked_up
             THEN GetCachedPrediction(st.cache, st.metrics, cache_key, t)
             ELSE [cache |-> st.cache, metrics |-> st.metrics, ret |-> None]
    IN IF g.ret # None
       THEN [cache |-> g.cache, history |-> st.history, metrics |-> g.metrics,
             analysis |-> <<>>, looked_up |-> TRUE, from_cache |-> TRUE,
             ret |-> g.ret]
       ELSE
       LET history == IF sensor_data.form = "dict" \/ Len(sensor_data.items) = 1
                      THEN HistoryAppend(st.history, sensor_data.items[1])
                      ELSE st.history
           rule_results == DetectAnomaliesRules(sensor_data, NoHistory, history)
           ml_results == MlResults(loaded, ml)
           summary == AnalyzeCombinedResults(rule_results, ml_results, history)
           combined_results ==
               [kind |-> "verdict", rule_based_detection |-> rule_results,
                ml_detection |-> ml_results, summary |-> summary,
                cache_used |-> looked_up,
                data_points_processed |->
                    IF sensor_data.form = "list" THEN Len(sensor_data.items) ELSE 1]
       IN [cache |-> IF looked_up
                     THEN StoreCachedPrediction(g.cache, size, cache_key,
                                                combined_results, t)
                     ELSE g.cache,
           history |-> history,
           metrics |-> IF loaded
                       THEN [g.metrics EXCEPT !.prediction_count = @ + Len(ml_results)]
                       ELSE g.metrics,
           analysis |-> <<[rule_results |-> rule_results, ml_results |-> ml_results,
                           window |-> Window(history), summary |-> summary]>>,
           looked_up |-> looked_up, from_cache |-> FALSE, ret |-> combined_results]

ServiceState ==
    [cache |-> _prediction_cache, history |-> _data_history,
     metrics |-> performance_metrics]

\* a direct call of detect_anomalies_hybrid
DetectHybrid(sensor_data, use_cache, ml) ==
    /\ calls' = calls + 1
    /\ \E h \in {Hybrid(ServiceState, _cache_max_size, models_loaded, now,
                         sensor_data, use_cache, ml)} :
          /\ _prediction_cache' = h.cache
          /\ _data_history' = h.history
          /\ performance_metrics' = h.metrics
          /\ last' = [op |-> "hybrid", sensor_data |-> sensor_data,
                      use_cache |-> use_cache, ml |-> ml, looked_up |-> h.looked_up,
                      from_cache |-> h.from_cache, analysis |-> h.analysis,
                      ret |-> h.ret]
    /\ UNCHANGED <<_cache_max_size, models_loaded, now, fresh, threads>>

----------------------------------------------------------------------------
(* The service fed one reading at a time: the history window fills and the  *)
(* combiner runs on every call.                                             *)

MaxDetections == 5

Normal2 == MakeReading([temperature |-> 2504, humidity |-> 6600, voltage |-> 331,
                        battery_level |-> 8400])

WindowReadings == {Normal, Normal2, Cold1, Cold2, NoneTemp}

InitWindow ==
    /\ InitCommon
    /\ last = Idle
    /\ models_loaded \in BOOLEAN
    /\ _cache_max_size = MaxCacheSize

\* the classifier answers every call of this specification
WindowMlOutcomes ==
    IF models_loaded THEN {MlOk(<<FALSE>>), MlOk(<<TRUE>>)} ELSE {MlUnavailable}

\* the caller keeps the call of _analyze_combined_results it kept before, or this one
KeepReference == reference' \in {reference} \cup {<<a>> : a \in Returned(last'.analysis)}

NextWindow ==
    \E reading \in WindowReadings, ml \in WindowMlOutcomes :
        /\ calls < MaxDetections
        /\ DetectHybrid(AsDict(reading), FALSE, ml)
        /\ KeepReference

SpecWindow == InitWindow /\ [][NextWindow]_vars

----------------------------------------------------------------------------
(* The process bridge: integration_bridge.py, NodeJSPythonBridge *)

\* validate_input gives a data point without a timestamp the current time
Stamped(data, t) ==
    [k \in DOMAIN data \cup {"timestamp"} |-> IF k \in DOMAIN data THEN data[k] ELSE t]

RECURSIVE HybridEach(_, _, _, _, _, _, _)
\* the loop of process_request over the data points: detect_anomalies_hybrid on each, as
\* a dict, threading the service state; mls[i] is what the classifier does for point i
HybridEach(st, size, loaded, t, points, use_cache, mls) ==
    IF points = <<>>
    THEN [cache |-> st.cache, history |-> st.history, metrics |-> st.metrics,
          results |-> <<>>]
    ELSE LET h == Hybrid(st, size, loaded, t, AsDict(Head(points)), use_cache, Head(mls))
             rest == HybridEach([cache |-> h.cache, history |-> h.history,
                                 metrics |-> h.metrics],
                                size, loaded, t, Tail(points), use_cache, Tail(mls))
         IN [rest EXCEPT !.results = <<h.ret>> \o @]

RECURSIVE Concat(_)
Concat(lists) == IF lists = <<>> THEN <<>> ELSE Head(lists) \o Concat(Tail(lists))

\* value / count rounded to the nearest integer, ties to even
RoundDiv(value, count) ==
    LET q == value \div count
        r == value % count
    IN IF 2 * r < count THEN q
       ELSE IF 2 * r > count THEN q + 1
       ELSE IF q % 2 = 0 THEN q ELSE q + 1

\* combine_multiple_results(results): one object for all the data points; its
\* health_score, an average rounded to two places, is in hundredths
CombineMultipleResults(results) ==
    LET verdicts == SelectSeq(results, LAMBDA r : r.kind = "verdict")
        combined_rule_detections == Concat(MapSeq(verdicts, LAMBDA r : r.rule_based_detection))
        combined_ml_detections == Concat(MapSeq(verdicts, LAMBDA r : r.ml_detection))
        alert_levels == {verdicts[i].summary.alert_level : i \in 1..Len(verdicts)}
        health_scores == MapSeq(verdicts, LAMBDA r : r.summary.health_score)
    IN [kind |-> "combined",
        rule_based_detection |-> combined_rule_detections,
        ml_detection |-> combined_ml_detections,
        summary |->
            [rule_anomalies_found |-> Len(combined_rule_detections) > 0,
             ml_anomalies_found |-> Len(combined_ml_detections) > 0,
             total_anomalies |->
                 SumSeq(MapSeq(verdicts, LAMBDA r : r.summary.total_anomalies)),
             alert_level |-> IF "red" \in alert_levels THEN "red"
                             ELSE IF "yellow" \in alert_levels THEN "yellow"
                             ELSE "green",
             health_score |-> IF health_scores # <<>>
                              THEN RoundDiv(100 * SumSeq(health_scores), Len(health_scores))
                              ELSE 10000,
             data_points_processed |-> Len(results)]]

\* process_request with method 'hybrid' on a non-empty array of data points
ProcessRequest(sensor_data, use_cache, mls) ==
    /\ calls' = calls + 1
    /\ LET points == MapSeq(sensor_data, LAMBDA data : Stamped(data, now))
       IN \E h \in {HybridEach(ServiceState, _cache_max_size, models_loaded, now,
                               points, use_cache, mls)} :
             /\ _prediction_cache' = h.cache
             /\ _data_history' = h.history
             /\ performance_metrics' = h.metrics
             /\ last' = [op |-> "bridge", sensor_data |-> points, use_cache |-> use_cache,
                         mls |-> mls, results |-> h.results,
                         ret |-> IF Len(h.results) = 1
                                 THEN h.results[1]
                                 ELSE CombineMultipleResults(h.results)]
    /\ UNCHANGED <<_cache_max_size, models_loaded, now, fresh, reference, threads>>

----------------------------------------------------------------------------
(* The service called directly and through the bridge, with and without the *)
(* cache, while the clock advances.                                         *)

MaxRequests == 2

\* a reading that rounds to the fingerprint of Normal
Near == MakeReading([temperature |-> 2504, humidity |-> 6500, voltage |-> 330,
                     battery_level |-> 8500])

TempOnly == MakeReading([temperature |-> 2500])

\* no temperature, humidity or voltage: validate_sensor_data rejects it
NoSensors == MakeReading([battery_level |-> 8500])

ServiceReadings == {Normal, Near, TempOnly}

DirectInputs ==
    {AsDict(reading) : reading \in ServiceReadings \cup {NoSensors}}
    \cup {AsList(<<reading>>) : reading \in ServiceReadings}
    \cup {AsList(<<Normal, Near>>)}

BridgeInputs ==
    {<<reading>> : reading \in ServiceReadings} \cup {<<Normal, Near>>, <<Near, TempOnly>>}

InitService ==
    /\ InitCommon
    /\ last = Idle
    /\ models_loaded \in BOOLEAN
    /\ _cache_max_size = MaxCacheSize

NextService ==
    \/ \E sensor_data \in DirectInputs, use_cache \in BOOLEAN :
          \E ml \in MlOutcomes(models_loaded, Len(sensor_data.items)) :
             /\ calls < MaxRequests
             /\ DetectHybrid(sensor_data, use_cache, ml)
             /\ UNCHANGED <<reference, threads>>
    \/ \E sensor_data \in BridgeInputs, use_cache \in BOOLEAN :
          \E mls \in [1..Len(sensor_data) -> MlOutcomes(models_loaded, 1)] :
             /\ calls < MaxRequests
             /\ ProcessRequest(sensor_data, use_cache, mls)
    \/ Tick

SpecService == InitService /\ [][NextService]_vars

\* the call of _analyze_combined_results the last detection made
Analysed == last.op = "hybrid" /\ last.analysis # <<>>

NoAnomalies(analysis) ==
    Anomalies(analysis.rule_results) = <<>> /\ Anomalies(analysis.ml_results) = <<>>

OutOfRange(data) ==
    \/ DictGet(data, "temperature", 2500) > 4000
    \/ DictGet(data, "temperature", 2500) < 1000
    \/ DictGet(data, "humidity", 6500) > 9000
    \/ DictGet(data, "voltage", 330) < 280

SameArguments(a, b) == a.rule_results = b.rule_results /\ a.ml_results = b.ml_results

WithoutHealth(summary) == [summary EXCEPT !.health_score = 0]

ResponseVerdicts(ret) == IF ret.kind = "error" THEN <<>> ELSE <<ret>>

ClassifierFailed(ml) == ml.kind \in {"timeout", "error"}

\* C9: hybrid detection over a batch of N readings returns N verdicts, verdict i being
\* that of reading i; a unit whose classifier call failed or timed out gets a verdict from
\* its rule results alone and the other verdicts are unaffected.
C9_BatchVerdicts ==
    /\ (last.op = "bridge" /\ \A i \in 1..Len(last.sensor_data) :
                                  ValidReading(last.sensor_data[i])) =>
          /\ Len(ResponseVerdicts(last.ret)) = Len(last.sensor_data)
          /\ ResponseVerdicts(last.ret) = last.results
          /\ \A i \in 1..Len(last.results) :
                ClassifierFailed(last.mls[i]) =>
                    /\ last.results[i].kind = "verdict"
                    /\ ~last.results[i].summary.ml_anomalies_found
                    /\ last.results[i].summary.alert_level =
                         AlertLevel(Anomalies(last.results[i].rule_based_detection), <<>>)
    /\ (/\ last.op = "hybrid"
        /\ last.sensor_data.form = "list"
        /\ ValidateSensorData(last.sensor_data)
        /\ ~last.from_cache) =>
          Len(ResponseVerdicts(last.ret)) = Len(last.sensor_data.items)

\* the part of C9 that holds: each data point of a bridge request is detected on its own,
\* and a failed classifier call leaves its point with a verdict from the rules alone
C9_UnitsDegrade ==
    (last.op = "bridge" /\ \A i \in 1..Len(last.sensor_data) :
                               ValidReading(last.sensor_data[i])) =>
          /\ Len(last.results) = Len(last.sensor_data)
          /\ \A i \in 1..Len(last.results) :
                /\ last.results[i].kind = "verdict"
                /\ ClassifierFailed(last.mls[i]) =>
                    /\ ~last.results[i].summary.ml_anomalies_found
                    /\ last.results[i].summary.alert_level =
                         AlertLevel(Anomalies(last.results[i].rule_based_detection), <<>>)

\* a detection of one valid reading, passed as a record or as a one-element list
SingleReading(call) ==
    /\ ValidateSensorData(call.sensor_data)
    /\ (call.sensor_data.form = "dict" \/ Len(call.sensor_data.items) = 1)

\* C10: with use_cache, a hybrid detection of one valid reading looks its fingerprint up
\* in the cache: a fresh entry is returned (cache_hits grows, nothing is evaluated, the
\* window is not touched); otherwise the combined verdict is stored under the
\* fingerprint.  This holds for a single record and for a one-element list.
C10_CacheUsed ==
    [][ (IsCall("hybrid") /\ last'.use_cache /\ SingleReading(last')) =>
            LET k == GenerateCacheKey(last'.sensor_data.items[1])
            IN IF /\ k \in CacheKeys(_prediction_cache)
                  /\ now - CacheEntry(_prediction_cache, k).timestamp < _cache_ttl
               THEN /\ last'.from_cache
                    /\ last'.ret = CacheEntry(_prediction_cache, k).result
                    /\ performance_metrics'.cache_hits = performance_metrics.cache_hits + 1
                    /\ _data_history' = _data_history
               ELSE /\ k \in CacheKeys(_prediction_cache')
                    /\ CacheEntry(_prediction_cache', k).result = last'.ret
      ]_vars

\* the part of C10 that holds: the same for a one-element list, or a record of one field
C10_CacheUsedByLists ==
    [][ (/\ IsCall("hybrid") /\ last'.use_cache /\ SingleReading(last')
         /\ PyLen(last'.sensor_data) = 1) =>
            LET k == GenerateCacheKey(last'.sensor_data.items[1])
            IN IF /\ k \in CacheKeys(_prediction_cache)
                  /\ now - CacheEntry(_prediction_cache, k).timestamp < _cache_ttl
               THEN /\ last'.from_cache
                    /\ last'.ret = CacheEntry(_prediction_cache, k).result
                    /\ performance_metrics'.cache_hits = performance_metrics.cache_hits + 1
                    /\ _data_history' = _data_history
               ELSE /\ k \in CacheKeys(_prediction_cache')
                    /\ CacheEntry(_prediction_cache', k).result = last'.ret
      ]_vars

----------------------------------------------------------------------------
(* detect_anomalies_ml_batch, step by step: the caller submits one         *)
(* _process_ml_batch call per batch to a pool of max_workers threads,      *)
(* waits for each future in submission order for at most ResultTimeout     *)
(* seconds, and leaves the 'with ThreadPoolExecutor' block, whose exit is  *)
(* executor.shutdown(wait=True).  threads holds the caller's position and  *)
(* locals and the state of the futures.                                    *)

MaxBatches == 3        \* batches per call: ceil(len(X) / batch_size)

max_workers == 2       \* ThreadPoolExecutor(max_workers=2)
ResultTimeout == 30    \* future.result(timeout=30), seconds

\* the caller's wait is observed every third of the timeout
WaitStep == ResultTimeout \div 3

\* a submitted call: it answers after some time, or it never does
Future(answers) == [state |-> "pending", answers |-> answers, result |-> <<>>]

FutureSets == UNION {[1..n -> {Future(a) : a \in BOOLEAN}] : n \in 1..MaxBatches}

Running(futures) == {j \in 1..Len(futures) : futures[j].state = "running"}

Unfinished(futures) == {j \in 1..Len(futures) : futures[j].state # "finished"}

\* a worker thread takes the oldest queued call
WorkerStart(j) ==
    /\ threads.pc \in {"collect", "shutdown"}
    /\ j \in 1..Len(threads.futures)
    /\ threads.futures[j].state = "pending"
    /\ \A i \in 1..(j - 1) : threads.futures[i].state # "pending"
    /\ Cardinality(Running(threads.futures)) < max_workers
    /\ threads' = [threads EXCEPT !.futures[j].state = "running"]
    /\ UNCHANGED <<_prediction_cache, _cache_max_size, _data_history, performance_metrics,
                   models_loaded, now, fresh, calls, last, reference>>

\* _process_ml_batch returns the predictions of its batch
WorkerFinish(j, flag) ==
    /\ threads.pc \in {"collect", "shutdown"}
    /\ j \in 1..Len(threads.futures)
    /\ threads.futures[j].state = "running"
    /\ threads.futures[j].answers
    /\ threads' = [threads EXCEPT !.futures[j].state = "finished",
                                  !.futures[j].result = <<MlResult(flag, 0)>>]
    /\ UNCHANGED <<_prediction_cache, _cache_max_size, _data_history, performance_metrics,
                   models_loaded, now, fresh, calls, last, reference>>

\* future.result(timeout=30) blocks while the call has not finished
WaitResult ==
    /\ threads.pc = "collect"
    /\ threads.futures[threads.index].state # "finished"
    /\ threads.waited < ResultTimeout
    /\ threads' = [threads EXCEPT !.waited = @ + WaitStep]
    /\ UNCHANGED <<_prediction_cache, _cache_max_size, _data_history, performance_metrics,
                   models_loaded, now, fresh, calls, last, reference>>

\* the loop over batch_futures moves to the next future, or leaves the loop
NextFuture(results) ==
    [threads EXCEPT !.results = results, !.waited = 0,
                    !.index = @ + 1,
                    !.pc = IF threads.index = Len(threads.futures)
                           THEN "shutdown" ELSE "collect"]

\* future.result(timeout=30) returns the batch results
CollectResult ==
    /\ threads.pc = "collect"
    /\ threads.futures[threads.index].state = "finished"
    /\ threads' = NextFuture(threads.results \o threads.futures[threads.index].result)
    /\ UNCHANGED <<_prediction_cache, _cache_max_size, _data_history, performance_metrics,
                   models_loaded, now, fresh, calls, last, reference>>

\* future.result(timeout=30) raises TimeoutError
CollectTimeout ==
    /\ threads.pc = "collect"
    /\ threads.futures[threads.index].state # "finished"
    /\ threads.waited = ResultTimeout
    /\ threads' = NextFuture(threads.results \o <<ErrorResult("Processing timeout")>>)
    /\ UNCHANGED <<_prediction_cache, _cache_max_size, _data_history, performance_metrics,
                   models_loaded, now, fresh, calls, last, reference>>

\* the exit of the with block waits for every submitted call, then the metrics are
\* updated and the results returned
ShutdownAndReturn ==
    /\ threads.pc = "shutdown"
    /\ Unfinished(threads.futures) = {}
    /\ threads' = [threads EXCEPT !.pc = "returned"]
    /\ performance_metrics' =
          [performance_metrics EXCEPT !.prediction_count = @ + Len(threads.results)]
    /\ calls' = calls + 1
    /\ last' = [op |-> "ml_batch", ret |-> threads.results]
    /\ UNCHANGED <<_prediction_cache, _cache_max_size, _data_history, models_loaded, now,
                   fresh, reference>>

\* the state after the submit loop of one call, models loaded
InitBatch ==
    /\ _prediction_cache = <<>>
    /\ _data_history = <<>>
    /\ performance_metrics = InitMetrics
    /\ now = 0
    /\ fresh = 0
    /\ calls = 0
    /\ reference = <<>>
    /\ last = Idle
    /\ models_loaded = TRUE
    /\ _cache_max_size = MaxCacheSize
    /\ threads \in {[pc |-> "collect", futures |-> futures, index |-> 1, waited |-> 0,
                     results |-> <<>>] : futures \in FutureSets}

CallerStep == WaitResult \/ CollectResult \/ CollectTimeout \/ ShutdownAndReturn

WorkerStep ==
    \E j \in 1..MaxBatches : WorkerStart(j) \/ \E flag \in BOOLEAN : WorkerFinish(j, flag)

NextBatch == CallerStep \/ WorkerStep

SpecBatch == InitBatch /\ [][NextBatch]_vars

\* the caller and the workers are threads of the interpreter: each runs when it can
SpecBatchFair ==
    /\ SpecBatch
    /\ WF_vars(WaitResult) /\ WF_vars(CollectResult) /\ WF_vars(CollectTimeout)
    /\ WF_vars(ShutdownAndReturn)
    /\ \A j \in 1..MaxBatches :
          WF_vars(WorkerStart(j)) /\ WF_vars(\E flag \in BOOLEAN : WorkerFinish(j, flag))

TimedOut(j) ==
    /\ j \in 1..Len(threads.results)
    /\ threads.results[j] = ErrorResult("Processing timeout")

\* C11: a classifier call that does not complete within the 30 s timeout gets a
\* timeout result and detect_anomalies_ml_batch then returns, whether or not the
\* call ever finishes.
C11_TimeoutReturns ==
    (\E j \in 1..MaxBatches : TimedOut(j)) ~> (threads.pc = "returned")

\* what the code does instead: it returns only once every submitted call has finished
C11_ReturnWaitsForCalls ==
    threads.pc = "returned" => Unfinished(threads.futures) = {}

\* the results of the sibling calls collected in time are returned in their places
C11_SiblingsKept ==
    threads.pc = "returned" =>
        /\ Len(threads.results) = Len(threads.futures)
        /\ \A j \in 1..Len(threads.futures) :
              TimedOut(j) \/ threads.results[j] = threads.futures[j].result[1]

----------------------------------------------------------------------------
(* The service with a classifier that may be missing or may fail, fed       *)
(* readings on which rules trigger.                                         *)

MaxDegradedCalls == 3

\* voltage 2.0 V, battery 5 %
Flat == MakeReading([temperature |-> 2500, humidity |-> 6500, voltage |-> 200,
                     battery_level |-> 500])

DegradedReadings == {Normal, Hot, Cold1, Flat}

InitDegraded ==
    /\ InitCommon
    /\ last = Idle
    /\ models_loaded \in BOOLEAN
    /\ _cache_max_size = MaxCacheSize

NextDegraded ==
    \E reading \in DegradedReadings, use_cache \in BOOLEAN :
       \E ml \in MlOutcomes(models_loaded, 1) :
          /\ calls < MaxDegradedCalls
          /\ DetectHybrid(AsDict(reading), use_cache, ml)
          /\ UNCHANGED reference

SpecDegraded == InitDegraded /\ [][NextDegraded]_vars

\* the last detection ran without a classifier answer: models not loaded, or the call raised
ClassifierMissing ==
    /\ Analysed
    /\ last.ml.kind \in {"unavailable", "error"}

\* C12: when the classifier is unavailable or its call raises, detect_anomalies_hybrid
\* returns a valid verdict whose alert_level, health_score and recommendations are those
\* of the rule results with no ML anomalies, whose ML-based confidence is 0 and whose
\* ml_detection entry records the failure.
C12_RuleOnlyFallback ==
    ClassifierMissing =>
        LET rule_results == last.ret.rule_based_detection
            rules_only == AnalyzeCombinedResults(rule_results, <<>>, _data_history)
            summary == last.ret.summary
        IN /\ last.ret.kind = "verdict"
           /\ summary.alert_level = rules_only.alert_level
           /\ summary.health_score = rules_only.health_score
           /\ summary.recommendations = rules_only.recommendations
           /\ summary.confidence_scores.ml_based = 0
           /\ Len(last.ret.ml_detection) = 1
           /\ ~last.ret.ml_detection[1].is_anomaly
           /\ last.ret.ml_detection[1].error # ""

\* the classifier call raised on a reading on which rules triggered
C12_Witness ==
    /\ ClassifierMissing
    /\ last.ml.kind = "error"
    /\ last.ret.summary.rule_anomalies_found
    /\ last.ret.summary.alert_level = "red"
    /\ last.ret.summary.health_score < 100

\* the models are not loaded
C12_WitnessUnavailable ==
    /\ ClassifierMissing
    /\ last.ml.kind = "unavailable"
    /\ last.ret.ml_detection = <<ErrorResult("ML models not loaded")>>
    /\ last.ret.summary.rule_anomalies_found

----------------------------------------------------------------------------
(* The service fed readings of two sensors in turn, more of them than the   *)
(* history window holds.  A reading names its sensor in its sensor_id field. *)

MaxStreamDetections == 7

SensorIds == {1, 2}

\* the reading with 'sensor_id': id added
OfSensor(reading, id) ==
    [key \in DOMAIN reading \cup {"sensor_id"} |->
        IF key = "sensor_id" THEN id ELSE reading[key]]

StreamReadings == {OfSensor(reading, id) : reading \in {Normal, Cold1}, id \in SensorIds}

StreamInputs ==
    {AsDict(reading) : reading \in StreamReadings}
    \cup {AsList(<<reading>>) : reading \in StreamReadings}

InitStreams ==
    /\ InitCommon
    /\ last = Idle
    /\ models_loaded = FALSE
    /\ _cache_max_size = MaxCacheSize

NextStreams ==
    \E sensor_data \in StreamInputs :
       /\ calls < MaxStreamDetections
       /\ DetectHybrid(sensor_data, FALSE, MlUnavailable)
       /\ UNCHANGED reference

SpecStreams == InitStreams /\ [][NextStreams]_vars

\* C13: history is kept per sensor stream: when a reading of one sensor_id is evaluated,
\* the previous reading, the history given to the rules and the readings of the
\* persistent-stress penalty all come from readings of that sensor_id.
C13_PerStreamHistory ==
    Analysed =>
        LET id == last.sensor_data.items[1].sensor_id
            previous_data == PreviousData(_data_history)
            window == last.analysis[1].window
        IN /\ previous_data = NoPrev \/ previous_data[1].sensor_id = id
           /\ \A i \in 1..Len(_data_history) : _data_history[i].sensor_id = id
           /\ \A i \in 1..Len(window) : window[i].sensor_id = id

\* what the code does instead: one window for all sensors, and the previous reading is
\* the reading ingested just before, whatever its sensor
C13_SharedWindow ==
    [][last'.op = "hybrid" /\ last'.analysis # <<>> /\ _data_history # <<>> =>
          PreviousData(_data_history') = Some(_data_history[Len(_data_history)])]_vars

\* a detection that evaluated the rules appended its reading to the window
Ingested ==
    /\ last'.op = "hybrid" /\ calls' = calls + 1
    /\ last'.analysis # <<>>

\* C14: the history window never holds more than its capacity (100 in the source);
\* appending to a full window drops exactly the oldest reading and keeps the others in
\* ingestion order.
C14_WindowFifo ==
    [][/\ Len(_data_history') <= HistoryMaxLen
       /\ Ingested =>
             LET reading == last'.sensor_data.items[1]
             IN IF Len(_data_history) = HistoryMaxLen
                THEN _data_history' = Append(Tail(_data_history), reading)
                ELSE _data_history' = Append(_data_history, reading)]_vars

\* a reading was appended to a full window whose oldest reading differed from the others
C14_Witness ==
    /\ calls > HistoryMaxLen
    /\ Len(_data_history) = HistoryMaxLen
    /\ last.op = "hybrid" /\ last.analysis # <<>>
    /\ _data_history[HistoryMaxLen] = last.sensor_data.items[1]
    /\ _data_history[1] # _data_history[HistoryMaxLen]

----------------------------------------------------------------------------
(* Several threads inside one AnomalyDetectionAPI object.  A thread runs    *)
(* detect_anomalies_hybrid or clear_cache step by step; a step is one       *)
(* critical section of self._lock or one stretch of code between two        *)
(* accesses to shared state.  threads holds the owner of self._lock (0 when *)
(* free), the position and locals of every thread, and two counts kept for  *)
(* comparison: the classifier results returned and the classifier calls     *)
(* that ended in the exception handler.  Each thread also keeps, for        *)
(* comparison, the reading that was the newest of the window when it        *)
(* appended its own (before) and the reading its rule evaluation took as    *)
(* previous_data (previous).                                                *)

NThreads == 2
MaxThreadCalls == 2

Threads == 1..NThreads

IdleThread ==
    [pc |-> "idle", sensor_data |-> <<>>, cached |-> FALSE, rule_results |-> <<>>,
     ml_results |-> <<>>, tmp |-> 0, ret |-> None, before |-> NoPrev,
     previous |-> NoPrev]

\* the inputs of the concurrent calls: [sensor_data, use_cache]
ThreadInputs ==
    {[sensor_data |-> AsList(<<Normal>>), use_cache |-> TRUE],
     [sensor_data |-> AsDict(Flat), use_cache |-> FALSE]}

\* the classifier call returns one prediction, or the submission raises
ThreadMlOutcomes == {MlOk(<<FALSE>>), [kind |-> "raise"]}

\* a lock taken whatever its owner
LockAlwaysFree(lock, t) == TRUE

\* threading.RLock: free, or already owned by the thread
LockFree(lock, t) == lock \in {0, t}

\* the sections of code run while holding self._lock
LockedSections == {"lookup", "append", "store", "clear"}

CacheSections == {"lookup", "store", "clear"}

Pc(t) == threads.of[t].pc

Returns(t, op, ret) ==
    last' = [op |-> op, thread |-> t, ret |-> ret]

SharedUnchanged ==
    UNCHANGED <<_cache_max_size, models_loaded, now, fresh, reference>>

\* detect_anomalies_hybrid is entered: validation, then the cache condition
BeginHybrid(t, input) ==
    /\ Pc(t) = "idle"
    /\ calls < MaxThreadCalls
    /\ calls' = calls + 1
    /\ ValidateSensorData(input.sensor_data)
    /\ LET cached == input.use_cache /\ PyLen(input.sensor_data) = 1
       IN threads' = [threads EXCEPT !.of[t] =
             [IdleThread EXCEPT !.pc = IF cached THEN "lookup_wait" ELSE "append_wait",
                                !.sensor_data = input.sensor_data,
                                !.cached = cached]]
    /\ UNCHANGED <<_prediction_cache, _data_history, performance_metrics, last>>
    /\ SharedUnchanged

\* clear_cache is entered
BeginClear(t) ==
    /\ Pc(t) = "idle"
    /\ calls < MaxThreadCalls
    /\ calls' = calls + 1
    /\ threads' = [threads EXCEPT !.of[t] = [IdleThread EXCEPT !.pc = "clear_wait"]]
    /\ UNCHANGED <<_prediction_cache, _data_history, performance_metrics, last>>
    /\ SharedUnchanged

\* with self._lock: the thread enters the section it was waiting for
Acquire(t) ==
    /\ Pc(t) \in {"lookup_wait", "append_wait", "store_wait", "clear_wait"}
    /\ LockFree(threads.lock, t)
    /\ threads' = [threads EXCEPT
          !.lock = t,
          !.of[t].pc = CASE Pc(t) = "lookup_wait" -> "lookup"
                         [] Pc(t) = "append_wait" -> "append"
                         [] Pc(t) = "store_wait" -> "store"
                         [] Pc(t) = "clear_wait" -> "clear"]
    /\ UNCHANGED <<_prediction_cache, _data_history, performance_metrics, calls, last>>
    /\ SharedUnchanged

\* the body of _get_cached_prediction; a hit returns from detect_anomalies_hybrid
Lookup(t) ==
    /\ Pc(t) = "lookup"
    /\ \E g \in {GetCachedPrediction(_prediction_cache, performance_metrics,
                     GenerateCacheKey(threads.of[t].sensor_data.items[1]), now)} :
          /\ _prediction_cache' = g.cache
          /\ performance_metrics' = g.metrics
          /\ IF g.ret # None
             THEN /\ threads' = [threads EXCEPT !.lock = 0, !.of[t] = IdleThread]
                  /\ Returns(t, "hybrid", g.ret)
             ELSE /\ threads' = [threads EXCEPT !.lock = 0, !.of[t].pc = "append_wait"]
                  /\ UNCHANGED last
    /\ UNCHANGED <<_data_history, calls>>
    /\ SharedUnchanged

\* self._data_history.append under the lock
AppendHistory(t) ==
    /\ Pc(t) = "append"
    /\ _data_history' = HistoryAppend(_data_history, threads.of[t].sensor_data.items[1])
    /\ threads' = [threads EXCEPT
          !.lock = 0,
          !.of[t].before = IF _data_history = <<>> THEN NoPrev
                           ELSE Some(_data_history[Len(_data_history)]),
          !.of[t].pc = "rules"]
    /\ UNCHANGED <<_prediction_cache, performance_metrics, calls, last>>
    /\ SharedUnchanged

\* detect_anomalies_rules on list(self._data_history) as it is now
EvalRules(t) ==
    /\ Pc(t) = "rules"
    /\ threads' = [threads EXCEPT
          !.of[t].rule_results =
              DetectAnomaliesRules(threads.of[t].sensor_data, NoHistory, _data_history),
          !.of[t].previous = PreviousData(_data_history),
          !.of[t].pc = "ml"]
    /\ UNCHANGED <<_prediction_cache, _data_history, performance_metrics, calls, last>>
    /\ SharedUnchanged

\* detect_anomalies_ml_batch up to the read of its counter: the results are there and
\* prediction_count is read (line 338), or the call raised and error_count is read (line
\* 354); the classifier touches no shared state, so the read is part of this step
MlCall(t, ml) ==
    /\ Pc(t) = "ml"
    /\ IF ml.kind = "raise"
       THEN threads' = [threads EXCEPT
                !.of[t].ml_results = <<ErrorResult("raised")>>,
                !.of[t].tmp = performance_metrics.error_count,
                !.of[t].pc = "count_error",
                !.failed = @ + 1]
       ELSE threads' = [threads EXCEPT
                !.of[t].ml_results = DetectAnomaliesMlBatch(ml),
                !.of[t].tmp = performance_metrics.prediction_count,
                !.of[t].pc = "count_prediction",
                !.produced = @ + Len(DetectAnomaliesMlBatch(ml))]
    /\ UNCHANGED <<_prediction_cache, _data_history, performance_metrics, calls, last>>
    /\ SharedUnchanged

\* the store of 'prediction_count += len(results)' or of 'error_count += 1'
WriteCount(t) ==
    /\ Pc(t) \in {"count_prediction", "count_error"}
    /\ performance_metrics' =
          IF Pc(t) = "count_error"
          THEN [performance_metrics EXCEPT !.error_count = threads.of[t].tmp + 1]
          ELSE [performance_metrics EXCEPT
                   !.prediction_count = threads.of[t].tmp + Len(threads.of[t].ml_results)]
    /\ threads' = [threads EXCEPT !.of[t].pc = "combine"]
    /\ UNCHANGED <<_prediction_cache, _data_history, calls, last>>
    /\ SharedUnchanged

\* _analyze_combined_results and the verdict; without a cache key the call returns
Combine(t) ==
    /\ Pc(t) = "combine"
    /\ LET me == threads.of[t]
           combined_results ==
               [kind |-> "verdict", rule_based_detection |-> me.rule_results,
                ml_detection |-> me.ml_results,
                summary |-> AnalyzeCombinedResults(me.rule_results, me.ml_results,
                                                   _data_history),
                cache_used |-> me.cached,
                data_points_processed |->
                    IF me.sensor_data.form = "list" THEN Len(me.sensor_data.items) ELSE 1]
       IN IF me.cached
          THEN /\ threads' = [threads EXCEPT !.of[t].ret = combined_results,
                                             !.of[t].pc = "store_wait"]
               /\ UNCHANGED last
          ELSE /\ threads' = [threads EXCEPT !.of[t] = IdleThread]
               /\ Returns(t, "hybrid", combined_results)
    /\ UNCHANGED <<_prediction_cache, _data_history, performance_metrics, calls>>
    /\ SharedUnchanged

\* the body of _store_cached_prediction, then detect_anomalies_hybrid returns
Store(t) ==
    /\ Pc(t) = "store"
    /\ _prediction_cache' =
          StoreCachedPrediction(_prediction_cache, _cache_max_size,
              GenerateCacheKey(threads.of[t].sensor_data.items[1]), threads.of[t].ret, now)
    /\ threads' = [threads EXCEPT !.lock = 0, !.of[t] = IdleThread]
    /\ Returns(t, "hybrid", threads.of[t].ret)
    /\ UNCHANGED <<_data_history, performance_metrics, calls>>
    /\ SharedUnchanged

\* the body of clear_cache
Clear(t) ==
    /\ Pc(t) = "clear"
    /\ _prediction_cache' = <<>>
    /\ threads' = [threads EXCEPT !.lock = 0, !.of[t] = IdleThread]
    /\ Returns(t, "clear", None)
    /\ UNCHANGED <<_data_history, performance_metrics, calls>>
    /\ SharedUnchanged

InitThreads ==
    /\ _prediction_cache = <<>>
    /\ _data_history = <<>>
    /\ performance_metrics = InitMetrics
    /\ now = 0
    /\ fresh = 0
    /\ calls = 0
    /\ reference = <<>>
    /\ last = Idle
    /\ models_loaded = TRUE
    /\ _cache_max_size = MaxCacheSize
    /\ threads = [lock |-> 0, of |-> [t \in Threads |-> IdleThread],
                  produced |-> 0, failed |-> 0]

NextThreads ==
    \E t \in Threads :
       \/ \E input \in ThreadInputs : BeginHybrid(t, input)
       \/ BeginClear(t)
       \/ Acquire(t)
       \/ Lookup(t)
       \/ AppendHistory(t)
       \/ EvalRules(t)
       \/ \E ml \in ThreadMlOutcomes : MlCall(t, ml)
       \/ WriteCount(t)
       \/ Combine(t)
       \/ Store(t)
       \/ Clear(t)

SpecThreads == InitThreads /\ [][NextThreads]_vars

\* C15: cache lookup, store and clear are mutually exclusive, and no thread holds the
\* cache lock while it evaluates the rules, calls the classifier or combines the results.
C15_MutualExclusion ==
    /\ \A t, u \in Threads :
          t # u => ~(Pc(t) \in CacheSections /\ Pc(u) \in CacheSections)
    /\ \A t \in Threads :
          /\ Pc(t) \in LockedSections => threads.lock = t
          /\ Pc(t) \notin LockedSections => threads.lock # t

\* one thread is inside the store while the other waits to look up, and one thread
\* evaluates rules while the other holds the lock
C15_Witness ==
    \E t, u \in Threads :
       /\ Pc(t) = "store"
       /\ Pc(u) = "lookup_wait"

C15_WitnessUnlocked ==
    \E t, u \in Threads :
       /\ Pc(t) \in {"rules", "ml", "combine"}
       /\ Pc(u) \in CacheSections

AllIdle == \A t \in Threads : Pc(t) = "idle"

\* C18: once every concurrent detection call has completed, prediction_count is the
\* number of classifier results produced and error_count the number of failed calls.
C18_CountersExact ==
    AllIdle =>
        /\ performance_metrics.prediction_count = threads.produced
        /\ performance_metrics.error_count = threads.failed

\* the counters never exceed the true counts: an interleaving can only lose increments
C18_CountersNeverExceed ==
    /\ performance_metrics.prediction_count <= threads.produced
    /\ performance_metrics.error_count <= threads.failed

\* the thread has evaluated the rules of the call it is in
Evaluated(t) == Pc(t) \in {"ml", "count_prediction", "count_error", "combine",
                            "store_wait", "store"}

\* C26: with concurrent detect_anomalies_hybrid calls for single readings, the rule
\* evaluation of a call takes as previous reading the reading ingested immediately
\* before its own: never its own reading, never skipping the one that preceded it.
C26_PreviousIsPredecessor ==
    \A t \in Threads :
       Evaluated(t) => threads.of[t].previous = threads.of[t].before

----------------------------------------------------------------------------
(* The service started on an unexpected cache state: some entries hold no   *)
(* usable timestamp, so that a lookup of such an entry, and the cleaning    *)
(* step of a store, raise inside their try blocks.                          *)

MaxCorruptCalls == 2

CorruptReadings == {Normal, Flat, Hot}

\* an entry as _store_cached_prediction writes it, or with a None timestamp
FoundEntries ==
    {[key |-> GenerateCacheKey(reading), result |-> Verdict(1), timestamp |-> ts] :
        reading \in {Normal, Flat}, ts \in {0, NoneVal}}

FoundCaches ==
    {<<e>> : e \in FoundEntries}
    \cup {pair \in {<<e, f>> : e \in FoundEntries, f \in FoundEntries} :
             pair[1].key # pair[2].key}

InitCorrupt ==
    /\ _prediction_cache \in FoundCaches
    /\ _cache_max_size \in {2, MaxCacheSize}
    /\ _data_history = <<>>
    /\ performance_metrics = InitMetrics
    /\ models_loaded \in BOOLEAN
    /\ now = 0
    /\ fresh = 0
    /\ calls = 0
    /\ reference = <<>>
    /\ threads = <<>>
    /\ last = Idle

NextCorrupt ==
    \E reading \in CorruptReadings :
       \E ml \in MlOutcomes(models_loaded, 1) :
          /\ calls < MaxCorruptCalls
          /\ DetectHybrid(AsList(<<reading>>), TRUE, ml)
          /\ UNCHANGED reference

SpecCorrupt == InitCorrupt /\ [][NextCorrupt]_vars

\* the lookup or the store of the detection made by this step raised
CacheRaised ==
    /\ last'.op = "hybrid" /\ calls' = calls + 1
    /\ last'.looked_up
    /\ LET cache_key == GenerateCacheKey(last'.sensor_data.items[1])
           g == GetCachedPrediction(_prediction_cache, performance_metrics, cache_key, now)
       IN \/ LookupRaises(_prediction_cache, cache_key)
          \/ g.ret = None /\ StoreRaises(g.cache, _cache_max_size)

C16_CacheErrorIsMiss ==
    [][CacheRaised =>
          /\ ~last'.from_cache
          /\ last'.ret.kind = "verdict"
          /\ last'.analysis # <<>>
          /\ \A i \in 1..Len(_prediction_cache) :
                \/ _prediction_cache[i].key = GenerateCacheKey(last'.sensor_data.items[1])
                \/ \E j \in 1..Len(_prediction_cache') :
                      _prediction_cache'[j] = _prediction_cache[i]]_vars

----------------------------------------------------------------------------
(* The rule evaluator with one predicate of the registry made to raise.     *)

FaultReadings ==
    {MakeReading(full) : full \in
        [temperature : {900, 2500, 4600},
         humidity : {6500, 9700},
         voltage : {330, 200},
         battery_level : {8500, 500}]}

\* no rule raises, or one does
FaultSets == {{}} \cup {{RuleNames[i]} : i \in 1..Len(RuleNames)}

FaultInputs ==
    UNION {{[sensor_data |-> AsDict(reading), data_history |-> data_history,
             raising |-> raising] :
               data_history \in {NoHistory, GivenHistory(<<Normal, reading>>)},
               raising \in FaultSets} : reading \in FaultReadings}

EvaluateRulesRaising ==
    /\ last.op = "input"
    /\ last' = [op |-> "rules_raising", sensor_data |-> last.args.sensor_data,
                data_history |-> last.args.data_history, raising |-> last.args.raising,
                anomalies |-> DetectAnomaliesRaising(last.args.sensor_data,
                                  last.args.data_history, last.args.raising)]
    /\ UNCHANGED <<_prediction_cache, _cache_max_size, _data_history, performance_metrics,
                   models_loaded, now, fresh, calls, reference, threads>>

InitFaults ==
    /\ InitCommon
    /\ models_loaded = FALSE
    /\ _cache_max_size = MaxCacheSize
    /\ last \in {Input(args) : args \in FaultInputs}

NextFaults == EvaluateRulesRaising

SpecFaults == InitFaults /\ [][NextFaults]_vars

\* C17: a rule whose predicate raises is treated as not triggered and every other rule
\* is still evaluated: the anomalies returned are those returned when no predicate
\* raises, less the rule that raised.
C17_RuleErrorIsolated ==
    last.op = "rules_raising" =>
        last.anomalies =
            SelectSeq(DetectAnomalies(last.sensor_data, last.data_history),
                      LAMBDA rule : rule \notin last.raising)

\* low_voltage raises on a reading on which it would trigger; a rule before it and a rule
\* after it in the registry are reported
C17_Witness ==
    /\ last.op = "rules_raising"
    /\ last.raising = {"low_voltage"}
    /\ "low_voltage" \in Returned(DetectAnomalies(last.sensor_data, last.data_history))
    /\ {"sudden_drop", "battery_depleted"} \subseteq Returned(last.anomalies)

----------------------------------------------------------------------------
(* _check_battery_depleted on its own, at and around its limits: battery    *)
(* levels of 0..100 %, voltages from 0 V, with and without a previous       *)
(* reading.                                                                 *)

BatteryLevels == {0, 500, 1100, 1199, 1200, 1300, 5000, 10000}

BatteryVoltages == {0, 100, 229, 230, 231, 330}

PreviousLevels == {0, 3000, 3200, 3201, 7100, 10000}

BatteryReading(battery_level, voltage) ==
    MakeReading([temperature |-> 2500, humidity |-> 6500, voltage |-> voltage,
                 battery_level |-> battery_level])

BatteryInputs ==
    {[current_data |-> BatteryReading(battery_level, voltage),
      previous_data |-> previous_data] :
        battery_level \in BatteryLevels, voltage \in BatteryVoltages,
        previous_data \in {NoPrev} \cup {Some(BatteryReading(level, 330)) :
                                            level \in PreviousLevels}}

CheckBattery ==
    /\ last.op = "input"
    /\ last' = [op |-> "battery_depleted", current_data |-> last.args.current_data,
                previous_data |-> last.args.previous_data,
                ret |-> CheckBatteryDepleted(last.args.current_data,
                            last.args.previous_data, <<>>)]
    /\ UNCHANGED <<_prediction_cache, _cache_max_size, _data_history, performance_metrics,
                   models_loaded, now, fresh, calls, reference, threads>>

InitBattery ==
    /\ InitCommon
    /\ models_loaded = FALSE
    /\ _cache_max_size = MaxCacheSize
    /\ last \in {Input(args) : args \in BatteryInputs}

NextBattery == CheckBattery

SpecBattery == InitBattery /\ [][NextBattery]_vars

\* battery_level < 12, or voltage < 2.3, or a drop of more than 20 points since the
\* previous reading
BatteryDepletedAsStated(current_data, previous_data) ==
    \/ current_data.battery_level < 1200
    \/ current_data.voltage < 230
    \/ /\ previous_data # NoPrev
       /\ previous_data[1].battery_level - current_data.battery_level > 2000

\* C19: battery_depleted triggers exactly when battery_level < 12, or voltage < 2.3, or
\* battery_level dropped by more than 20 points since the previous reading, for every
\* battery_level in 0..100 and every non-negative voltage.
C19_BatteryDepletedExact ==
    last.op = "battery_depleted" =>
        (last.ret <=> BatteryDepletedAsStated(last.current_data, last.previous_data))

\* the equivalence holds where battery level, voltage and previous battery level are
\* all above 0
C19_BatteryDepletedAboveZero ==
    (/\ last.op = "battery_depleted"
     /\ last.current_data.battery_level > 0
     /\ last.current_data.voltage > 0
     /\ (last.previous_data = NoPrev \/ last.previous_data[1].battery_level > 0))
    => (last.ret <=> BatteryDepletedAsStated(last.current_data, last.previous_data))

----------------------------------------------------------------------------
(* _check_sensor_failure on its own: readings whose temperature, humidity   *)
(* and voltage are absent, None, a sentinel, in range or out of range, with *)
(* a history that is short, steady or varying.                              *)

FailureReadings ==
    {MakeReading(full) : full \in
        [temperature : {Absent, NoneVal, 0, -99900, -100, 2500, 8100},
         humidity : {Absent, 0, 6500, 10100},
         voltage : {Absent, 0, 330, 560}]}

\* the history up to and including the reading: the reading alone, five times the
\* reading, four times the reading after another one, four other readings and the reading
FailureHistories(reading) ==
    {<<reading>>,
     <<reading, reading, reading, reading, reading>>,
     <<Cold2, reading, reading, reading, reading>>,
     <<Normal, Normal2, Cold1, Cold2, reading>>}

FailureInputs ==
    UNION {{[current_data |-> reading, data_history |-> data_history] :
               data_history \in FailureHistories(reading)} : reading \in FailureReadings}

CheckFailure ==
    /\ last.op = "input"
    /\ last' = [op |-> "sensor_failure", current_data |-> last.args.current_data,
                data_history |-> last.args.data_history,
                ret |-> CheckSensorFailure(last.args.current_data,
                            PreviousData(last.args.data_history), last.args.data_history)]
    /\ UNCHANGED <<_prediction_cache, _cache_max_size, _data_history, performance_metrics,
                   models_loaded, now, fresh, calls, reference, threads>>

InitFailure ==
    /\ InitCommon
    /\ models_loaded = FALSE
    /\ _cache_max_size = MaxCacheSize
    /\ last \in {Input(args) : args \in FailureInputs}

NextFailure == CheckFailure

SpecFailure == InitFailure /\ [][NextFailure]_vars

\* the sensors of the reading that hold a sentinel (None included) or a value outside
\* the physical range
HoldsFailureValue(current_data) ==
    {sensor \in critical_sensors :
        sensor \in DOMAIN current_data /\ SensorFailed(current_data, sensor)}

\* one of the sensors reads the same value, other than 0, in the 5 most recent entries
StuckValue(data_history) ==
    /\ Len(data_history) >= 5
    /\ \E sensor \in critical_sensors :
          /\ \A i \in 1..5 :
                SafeGetNumericValue(LastN(data_history, 5)[i], sensor)
                   = SafeGetNumericValue(data_history[Len(data_history)], sensor)
          /\ SafeGetNumericValue(data_history[Len(data_history)], sensor) # 0

\* C20: sensor_failure triggers when at least 2 of temperature, humidity and voltage hold
\* sentinel or out-of-range values, or when one of them shows the same value, not a
\* legitimate constant, across the 5 most recent history entries, and not otherwise.
C20_SensorFailureExact ==
    last.op = "sensor_failure" =>
        (last.ret <=> \/ Cardinality(HoldsFailureValue(last.current_data)) >= 2
                      \/ StuckValue(last.data_history))

\* the equivalence holds for the readings that carry all three fields
C20_SensorFailureComplete ==
    (/\ last.op = "sensor_failure"
     /\ critical_sensors \subseteq DOMAIN last.current_data)
    => (last.ret <=> \/ Cardinality(HoldsFailureValue(last.current_data)) >= 2
                     \/ StuckValue(last.data_history))

----------------------------------------------------------------------------
(* The service fed the readings of the documented scenarios, one reading    *)
(* per detection, as a dict or as a one-element list, with and without the  *)
(* cache.                                                                   *)

MaxScenarioCalls == 3

\* {voltage: 2.0, battery_level: 5}
Depleted == MakeReading([voltage |-> 200, battery_level |-> 500])

\* {temperature: 30}, {temperature: 18}
Warm == MakeReading([temperature |-> 3000])
Cool == MakeReading([temperature |-> 1800])

ScenarioReadings == {Depleted, Warm, Cool}

ScenarioInputs ==
    {AsDict(reading) : reading \in ScenarioReadings}
    \cup {AsList(<<reading>>) : reading \in ScenarioReadings}

InitScenario ==
    /\ InitCommon
    /\ last = Idle
    /\ models_loaded \in BOOLEAN
    /\ _cache_max_size = MaxCacheSize

\* reference holds the detection made before the last one
NextScenario ==
    \E sensor_data \in ScenarioInputs, use_cache \in BOOLEAN :
       \E ml \in WindowMlOutcomes :
          /\ calls < MaxScenarioCalls
          /\ DetectHybrid(sensor_data, use_cache, ml)
          /\ reference' = last

SpecScenario == InitScenario /\ [][NextScenario]_vars

\* the types of the rules reported by a verdict
TriggeredTypes(ret) ==
    {r.anomaly_type : r \in Triggered(ret.rule_based_detection)}

\* the last detection evaluated this reading as the first reading of the window
FirstDetectionOf(reading) ==
    /\ last.op = "hybrid"
    /\ last.sensor_data.items = <<reading>>
    /\ ~last.from_cache
    /\ _data_history = <<reading>>

\* C21: for the reading {voltage: 2.0, battery_level: 5} with no history, both
\* battery_depleted and low_voltage trigger, the deductions are at least 3*15 + 2*15 and
\* the health_score of the verdict is 0.
C21_DepletedScenario ==
    FirstDetectionOf(Depleted) =>
        LET rule_anomalies == Anomalies(last.ret.rule_based_detection)
        IN /\ last.ret.kind = "verdict"
           /\ {"battery_depleted", "low_voltage"} \subseteq TriggeredTypes(last.ret)
           /\ SumSeq(MapSeq(rule_anomalies, Deduction)) >= 3 * 15 + 2 * 15
           /\ last.ret.summary.health_score = 0

\* the scenario ran: three rules triggered, with deductions of 45, 16 and 45
C21_Witness ==
    /\ FirstDetectionOf(Depleted)
    /\ TriggeredTypes(last.ret) = {"battery_depleted", "low_voltage", "sensor_failure"}
    /\ SumSeq(MapSeq(Anomalies(last.ret.rule_based_detection), Deduction)) = 106
    /\ last.ret.summary.alert_level = "red"

\* the last two detections were given single readings whose temperatures are both
\* positive, the second more than 10 degrees below the first
DropBetweenDetections ==
    /\ calls >= 2
    /\ last.op = "hybrid" /\ reference.op = "hybrid"
    /\ LET prev_temp == SafeGetNumericValue(reference.sensor_data.items[1], "temperature")
           current_temp == SafeGetNumericValue(last.sensor_data.items[1], "temperature")
       IN /\ prev_temp > 0 /\ current_temp > 0
          /\ prev_temp - current_temp > 1000

\* C22: two consecutive detections whose temperatures are both positive and differ by a
\* drop of more than 10 (30 then 18) make sudden_drop trigger on the second one.
C22_SuddenDropOnSecond ==
    DropBetweenDetections =>
        /\ last.ret.kind = "verdict"
        /\ "sudden_drop" \in TriggeredTypes(last.ret)

\* C22, for detections that were both evaluated (neither was answered from the cache):
\* the first reading was ingested into the window and is the previous reading of the
\* second, on which sudden_drop triggers.
C22_SuddenDropWhenIngested ==
    (DropBetweenDetections /\ ~reference.from_cache /\ ~last.from_cache) =>
        /\ last.ret.kind = "verdict"
        /\ "sudden_drop" \in TriggeredTypes(last.ret)
        /\ Len(_data_history) >= 2
        /\ _data_history[Len(_data_history) - 1] = reference.sensor_data.items[1]

----------------------------------------------------------------------------
(* The combiner applied to every set of triggered rules, in the order the   *)
(* rule evaluator returns them.                                             *)

\* the result lists of detect_anomalies_rules for every subset of the registry
RecommendRuleResults ==
    {RuleResults(SortByPriority(SelectSeq(RuleNames, LAMBDA r : r \in S))) :
        S \in SUBSET Returned(RuleNames)}

RecommendMlResults == {<<>>, <<MlResult(FALSE, 0)>>, <<MlResult(TRUE, 0)>>}

InitRecommend ==
    /\ InitCommon
    /\ models_loaded = TRUE
    /\ _cache_max_size = MaxCacheSize
    /\ last \in {Input([rule_results |-> rule_results, ml_results |-> ml_results]) :
                    rule_results \in RecommendRuleResults,
                    ml_results \in RecommendMlResults}

NextRecommend == AnalyzeCombined

SpecRecommend == InitRecommend /\ [][NextRecommend]_vars

PriorityRank(label) ==
    CASE label = "high" -> 3 [] label = "medium" -> 2 [] label = "low" -> 1

\* the recommendations that exist for a pair of result lists: one per triggered rule, one
\* for flagged classifier results when no rule triggered
ExistingRecommendations(rule_results, ml_results) ==
    {Recommendation(r) : r \in Triggered(rule_results)}
    \cup (IF Triggered(ml_results) # {} /\ Triggered(rule_results) = {}
          THEN {[type |-> "general_anomaly", priority |-> "medium"]}
          ELSE {})

\* C23: the recommendations list of a verdict has at most 5 entries, ordered high before
\* medium before low; the entries are recommendations that exist, none twice, and no
\* dropped recommendation has a higher priority than a kept one.
C23_TopFiveByPriority ==
    last.op = "combine" =>
        LET recs == last.summary.recommendations
            existing == ExistingRecommendations(last.rule_results, last.ml_results)
            kept == Returned(recs)
            dropped == existing \ kept
        IN /\ Len(recs) <= 5
           /\ \A i, j \in 1..Len(recs) :
                 i < j => PriorityRank(recs[i].priority) >= PriorityRank(recs[j].priority)
           /\ Cardinality(kept) = Len(recs)
           /\ existing # {} => kept \subseteq existing
           /\ dropped # {} => Len(recs) = 5
           /\ \A d \in dropped, k \in kept :
                 PriorityRank(d.priority) <= PriorityRank(k.priority)

\* seven rules triggered: the two high and three of the four medium recommendations are
\* kept, a medium and the low one are dropped
C23_Witness ==
    /\ last.op = "combine"
    /\ Cardinality(Triggered(last.rule_results)) = 7
    /\ Len(last.summary.recommendations) = 5
    /\ last.summary.recommendations[2].priority = "high"
    /\ last.summary.recommendations[3].priority = "medium"
    /\ last.summary.recommendations[5].priority = "medium"
    /\ \E r \in Triggered(last.rule_results) : r.anomaly_type = "gradual_drift"

----------------------------------------------------------------------------
(* The whole process bridge: main and process_request with every method,    *)
(* the health check and the requests validate_input rejects.                *)

MaxBridgeRequests == 2

\* the JSON values a request can be: shape says what the document and its sensor_data
\* field are; a field of options that is absent holds its default
Request(shape, sensor_data, method, use_cache, health_check) ==
    [shape |-> shape, sensor_data |-> sensor_data, method |-> method,
     use_cache |-> use_cache, health_check |-> health_check]

BridgeShapes == {"not_object", "absent", "not_list", "empty", "bad_item", "ok"}

BridgePoints == {<<Normal>>, <<Flat>>, <<NoSensors>>, <<Normal, Flat>>}

BridgeRequests ==
    {Request("not_object", <<>>, "hybrid", TRUE, FALSE)}
    \cup {Request(shape, <<>>, "hybrid", TRUE, health_check) :
            shape \in BridgeShapes \ {"ok", "not_object"}, health_check \in BOOLEAN}
    \cup {Request("ok", sensor_data, "hybrid", use_cache, health_check) :
            sensor_data \in BridgePoints, use_cache \in BOOLEAN, health_check \in BOOLEAN}
    \cup {Request("ok", sensor_data, method, TRUE, FALSE) :
            sensor_data \in BridgePoints, method \in {"rule_based", "ml_based", "other"}}

\* the lines main can read from stdin
BridgeLines ==
    {[raw |-> "empty"], [raw |-> "malformed"]}
    \cup {[raw |-> "json", data |-> request] : request \in BridgeRequests}

\* validate_input(data): the message of the ValueError it raises, or "" when it passes
ValidateInput(data) ==
    CASE data.shape = "not_object" -> "Input must be a JSON object"
      [] data.shape = "absent" -> "Missing required field: sensor_data"
      [] data.shape = "not_list" -> "sensor_data must be an array"
      [] data.shape = "empty" -> "sensor_data array cannot be empty"
      [] data.shape = "bad_item" -> "sensor_data[i] must be an object"
      [] OTHER -> ""

\* the element of a one-element set: binds a value that was computed once
Only(S) == CHOOSE x \in S : TRUE

\* generate_error_response(error_message)
GenerateErrorResponse(error_message) ==
    [error |-> error_message, status |-> "error"]

\* generate_health_check_response(): uptime is the time since construction
GenerateHealthCheckResponse(loaded, t) ==
    [success |-> TRUE, health_check |-> TRUE,
     status |-> IF loaded THEN "active" ELSE "degraded",
     models_loaded |-> loaded, uptime_hours |-> t]

\* generate_ml_unavailable_response()
GenerateMlUnavailableResponse ==
    [kind |-> "ml_unavailable",
     rule_based_detection |-> <<Result(FALSE, "", "", 0, 0, "")>>,
     ml_detection |-> <<ErrorResult("ML models not loaded")>>,
     summary |-> [rule_anomalies_found |-> FALSE, ml_anomalies_found |-> FALSE,
                  total_anomalies |-> 0, alert_level |-> "green", health_score |-> 100,
                  recommendations |-> <<>>]]

\* anomaly.get(key, default) on an entry of a result list, where "" or 0 stands for an
\* absent key
GetOr(value, absent, default) == IF value = absent THEN default ELSE value

\* an entry of rule_detections: every entry of the result lists is reported as an
\* anomaly; the entries carry 'anomaly_type' and no 'type', so get('type') is 'unknown'
RuleDetection(anomaly) ==
    Result(TRUE, "unknown", GetOr(anomaly.alert_level, "", "yellow"),
           GetOr(anomaly.priority, 0, 1), GetOr(anomaly.confidence, 0, 95), "")

\* format_rule_based_response(rule_results)
FormatRuleBasedResponse(rule_results) ==
    LET all_anomalies == Concat(rule_results)
        total_anomalies == Len(all_anomalies)
        rule_detections ==
            IF total_anomalies = 0
            THEN <<Result(FALSE, "", "", 0, 95, "")>>
            ELSE MapSeq(all_anomalies, RuleDetection)
        levels == {rule_detections[i].alert_level : i \in 1..Len(rule_detections)}
    IN [kind |-> "rule_based",
        rule_based_detection |-> rule_detections,
        ml_detection |-> <<ErrorResult("ML detection not requested")>>,
        summary |-> [rule_anomalies_found |-> total_anomalies > 0,
                     ml_anomalies_found |-> FALSE,
                     total_anomalies |-> total_anomalies,
                     alert_level |-> IF "red" \in levels THEN "red"
                                     ELSE IF "yellow" \in levels THEN "yellow"
                                     ELSE "green",
                     health_score |-> Max2(0, 100 - total_anomalies * 10),
                     recommendations |-> <<>>]]

\* bool(prediction) for an entry of the result list, a dict: true unless it is empty
PyBool(prediction) == DOMAIN prediction # {}

\* an entry of ml_detections that takes the flag of the classifier's entry
MlDetectionOfFlag(prediction) == MlResult(prediction.is_anomaly, 0)

\* an entry of ml_detections: is_anomaly is bool(prediction); a dict is no number, so
\* the confidence is 0.0
MlDetection(prediction) == MlResult(PyBool(prediction), 0)

\* format_ml_response(ml_results, sensor_data)
FormatMlResponse(ml_results) ==
    LET ml_detections == MapSeq(ml_results, MlDetection)
        anomaly_count == Len(Anomalies(ml_detections))
    IN [kind |-> "ml_based",
        rule_based_detection |-> <<Result(FALSE, "", "", 0, 0, "")>>,
        ml_detection |-> ml_detections,
        summary |-> [rule_anomalies_found |-> FALSE,
                     ml_anomalies_found |-> anomaly_count > 0,
                     total_anomalies |-> anomaly_count,
                     alert_level |-> IF anomaly_count > 0 THEN "yellow" ELSE "green",
                     health_score |-> Max2(50, 100 - anomaly_count * 15),
                     recommendations |-> <<>>]]

\* what process_request leaves when it touched nothing
Untouched(st, ret) ==
    [cache |-> st.cache, history |-> st.history, metrics |-> st.metrics, ret |-> ret,
     rule_results |-> <<>>, ml_results |-> <<>>]

\* process_request(input_data) on the service state st at time t; mls[i] is what the
\* classifier does for point i of a hybrid request, ml what it does for the batch of an
\* ml_based request
ProcessRequestAny(st, size, loaded, t, input_data, mls, ml) ==
    IF ValidateInput(input_data) # ""
    THEN Untouched(st, GenerateErrorResponse(ValidateInput(input_data)))
    ELSE
    LET sensor_data == MapSeq(input_data.sensor_data, LAMBDA data : Stamped(data, t))
    IN IF input_data.health_check
       THEN Untouched(st, GenerateHealthCheckResponse(loaded, t))
       ELSE
       CASE input_data.method = "hybrid" ->
               Only({[cache |-> h.cache, history |-> h.history, metrics |-> h.metrics,
                      ret |-> IF Len(h.results) = 1 THEN h.results[1]
                              ELSE CombineMultipleResults(h.results),
                      rule_results |-> <<>>, ml_results |-> <<>>] :
                     h \in {HybridEach(st, size, loaded, t, sensor_data,
                                       input_data.use_cache, mls)}})
         [] input_data.method = "rule_based" ->
               Only({[Untouched(st, FormatRuleBasedResponse(rule_results))
                          EXCEPT !.rule_results = rule_results] :
                     rule_results \in
                        {MapSeq(sensor_data,
                                LAMBDA data : DetectAnomaliesRules(AsDict(data), NoHistory,
                                                                   st.history))}})
         [] input_data.method = "ml_based" ->
               IF ~loaded
               THEN Untouched(st, GenerateMlUnavailableResponse)
               ELSE Only({[cache |-> st.cache, history |-> st.history,
                           metrics |-> [st.metrics EXCEPT
                                           !.prediction_count = @ + Len(ml_results)],
                           ret |-> FormatMlResponse(ml_results),
                           rule_results |-> <<>>, ml_results |-> ml_results] :
                          ml_results \in {DetectAnomaliesMlBatch(ml)}})
         [] OTHER -> Untouched(st, GenerateErrorResponse("Unknown method"))

\* the classifier outcomes a request can meet
HybridOutcomes(input_data) ==
    IF input_data.shape = "ok" /\ input_data.method = "hybrid" /\ ~input_data.health_check
    THEN [1..Len(input_data.sensor_data) -> WindowMlOutcomes]
    ELSE {<<>>}

BatchOutcomes(input_data) ==
    IF input_data.shape = "ok" /\ input_data.method = "ml_based" /\ models_loaded
    THEN MlOutcomes(TRUE, Len(input_data.sensor_data))
    ELSE {MlUnavailable}

\* a call of process_request on a bridge that stays alive between requests
BridgeRequest(input_data) ==
    /\ calls < MaxBridgeRequests
    /\ calls' = calls + 1
    /\ \E mls \in HybridOutcomes(input_data), ml \in BatchOutcomes(input_data) :
          \E r \in {ProcessRequestAny(ServiceState, _cache_max_size, models_loaded, now,
                                      input_data, mls, ml)} :
             /\ _prediction_cache' = r.cache
             /\ _data_history' = r.history
             /\ performance_metrics' = r.metrics
             /\ last' = [op |-> "process_request", input_data |-> input_data,
                         rule_results |-> r.rule_results, ml_results |-> r.ml_results,
                         ret |-> r.ret]
    /\ UNCHANGED <<_cache_max_size, models_loaded, now, fresh, reference, threads>>

\* main(): a process of its own, with a bridge it builds; it prints what it answers
\* with print, on the standard output, and exits with 1 after an input it cannot parse
Main(line) ==
    /\ calls = 0
    /\ calls' = MaxBridgeRequests
    /\ IF line.raw # "json"
       THEN /\ last' = [op |-> "main", line |-> line, stream |-> "stdout", exit |-> 1,
                        ret |-> GenerateErrorResponse(
                                    IF line.raw = "empty" THEN "No input data received"
                                    ELSE "Invalid JSON input")]
            /\ UNCHANGED <<_prediction_cache, _data_history, performance_metrics>>
       ELSE \E mls \in HybridOutcomes(line.data), ml \in BatchOutcomes(line.data) :
               \E r \in {ProcessRequestAny(ServiceState, _cache_max_size, models_loaded,
                                           now, line.data, mls, ml)} :
                  /\ _prediction_cache' = r.cache
                  /\ _data_history' = r.history
                  /\ performance_metrics' = r.metrics
                  /\ last' = [op |-> "main", line |-> line, stream |-> "stdout",
                              exit |-> 0, ret |-> r.ret]
    /\ UNCHANGED <<_cache_max_size, models_loaded, now, fresh, reference, threads>>

InitBridge ==
    /\ InitCommon
    /\ last = Idle
    /\ models_loaded \in BOOLEAN
    /\ _cache_max_size = MaxCacheSize

NextBridge ==
    \/ \E input_data \in BridgeRequests : BridgeRequest(input_data)
    \/ \E line \in BridgeLines : Main(line)
    \/ Tick

SpecBridge == InitBridge /\ [][NextBridge]_vars

Answered == last.op \in {"process_request", "main"}

\* the three kinds of response
VerdictShaped(ret) == "summary" \in DOMAIN ret
HealthSummary(ret) ==
    {"health_check", "status", "models_loaded", "uptime_hours"} \subseteq DOMAIN ret
TaggedError(ret) ==
    /\ {"error", "status"} \subseteq DOMAIN ret
    /\ ret.status = "error"

\* an object with 'error' and no 'status', as detect_anomalies_hybrid returns it
BareError(ret) == "error" \in DOMAIN ret /\ "status" \notin DOMAIN ret

ExactlyOne(flags) == Cardinality({i \in 1..Len(flags) : flags[i]}) = 1

\* C24: every response of the bridge to one request is exactly one of a verdict-shaped
\* object with a summary, a health-check summary, or an error object carrying 'error'
\* and status = "error"; input that is not JSON yields a JSON error object on the error
\* stream and a non-zero exit.
C24_BridgeResponses ==
    Answered =>
        /\ ExactlyOne(<<VerdictShaped(last.ret), HealthSummary(last.ret),
                        TaggedError(last.ret)>>)
        /\ (last.op = "main" /\ last.line.raw = "malformed") =>
              /\ TaggedError(last.ret)
              /\ last.stream = "stderr"
              /\ last.exit # 0

\* C24, as the bridge answers: a fourth kind of response exists, the untagged error
\* object of detect_anomalies_hybrid passed through for a single data point, and main
\* prints the error object for unparsable input on the standard output, exiting with 1.
C24_ResponsesAsBuilt ==
    Answered =>
        /\ ExactlyOne(<<VerdictShaped(last.ret), HealthSummary(last.ret),
                        TaggedError(last.ret), BareError(last.ret)>>)
        /\ BareError(last.ret) =>
              LET input_data == IF last.op = "main" THEN last.line.data
                                ELSE last.input_data
              IN /\ input_data.method = "hybrid"
                 /\ Len(input_data.sensor_data) = 1
                 /\ ~ValidReading(input_data.sensor_data[1])
        /\ (last.op = "main" /\ last.line.raw # "json") =>
              /\ TaggedError(last.ret)
              /\ last.stream = "stdout"
              /\ last.exit = 1

\* the step is a call of process_request with health_check = true
HealthCheckStep ==
    /\ calls' = calls + 1
    /\ last'.op = "process_request"
    /\ last'.input_data.health_check

\* C25: a request with health_check = true is answered with the health-check summary and
\* changes neither cache nor history nor counters, whether or not sensor_data is present
\* or non-empty in the request.
C25_HealthCheckAlways ==
    [][HealthCheckStep =>
          /\ HealthSummary(last'.ret)
          /\ UNCHANGED <<_prediction_cache, _data_history, performance_metrics>>]_vars

\* C25, as the bridge answers: validate_input runs before the health_check flag is read,
\* so the summary is given only when sensor_data is a non-empty array of objects, and a
\* tagged error otherwise; no detection runs in either case.
C25_HealthCheckAfterValidation ==
    [][HealthCheckStep =>
          /\ IF last'.input_data.shape = "ok"
             THEN /\ HealthSummary(last'.ret)
                  /\ last'.ret.status = (IF models_loaded THEN "active" ELSE "degraded")
                  /\ last'.ret.models_loaded = models_loaded
                  /\ last'.ret.uptime_hours = now
             ELSE TaggedError(last'.ret)
          /\ UNCHANGED <<_prediction_cache, _data_history, performance_metrics>>]_vars

\* the last request ran a method of the bridge on its data points
Ran(method) ==
    /\ last.op = "process_request"
    /\ last.input_data.shape = "ok"
    /\ ~last.input_data.health_check
    /\ last.input_data.method = method

\* C29: in the rule_based method, readings that trigger no rule yield alert_level green,
\* total_anomalies 0 and rule_anomalies_found false; total_anomalies is the number of
\* rules that triggered and each reported anomaly keeps the type and the alert level of
\* its rule.
C29_RuleBasedSummary ==
    Ran("rule_based") =>
        LET hits == Anomalies(Concat(last.rule_results))
            reported == Anomalies(last.ret.rule_based_detection)
            summary == last.ret.summary
        IN /\ summary.total_anomalies = Len(hits)
           /\ summary.rule_anomalies_found = (hits # <<>>)
           /\ hits = <<>> => summary.alert_level = "green"
           /\ Len(reported) = Len(hits)
           /\ \A i \in 1..Len(hits) :
                 /\ reported[i].anomaly_type = hits[i].anomaly_type
                 /\ reported[i].alert_level = hits[i].alert_level

\* C29, as the bridge answers: every entry of the result lists is reported as an anomaly
\* of type 'unknown', the 'operating normally' and error entries included, with level
\* yellow when the entry has none; the response is never green.
C29_EveryEntryCounted ==
    Ran("rule_based") =>
        LET entries == Concat(last.rule_results)
            reported == last.ret.rule_based_detection
            summary == last.ret.summary
        IN /\ summary.total_anomalies = Len(entries)
           /\ summary.total_anomalies >= Len(last.input_data.sensor_data)
           /\ summary.rule_anomalies_found
           /\ summary.alert_level # "green"
           /\ Len(reported) = Len(entries)
           /\ \A i \in 1..Len(entries) :
                 /\ reported[i].is_anomaly
                 /\ reported[i].anomaly_type = "unknown"
                 /\ entries[i].is_anomaly => reported[i].alert_level = entries[i].alert_level
                 /\ ~entries[i].is_anomaly => reported[i].alert_level = "yellow"

\* C30: in the ml_based method, the is_anomaly flag reported for each reading is the
\* classifier's flag for that reading, so a batch the classifier judges entirely normal
\* yields ml_anomalies_found false, total_anomalies 0 and alert_level green.
C30_MlFlagsKept ==
    (Ran("ml_based") /\ models_loaded) =>
        LET summary == last.ret.summary
        IN /\ Len(last.ret.ml_detection) = Len(last.ml_results)
           /\ \A i \in 1..Len(last.ml_results) :
                 last.ret.ml_detection[i].is_anomaly = last.ml_results[i].is_anomaly
           /\ Anomalies(last.ml_results) = <<>> =>
                 /\ ~summary.ml_anomalies_found
                 /\ summary.total_anomalies = 0
                 /\ summary.alert_level = "green"

\* C30, as the bridge answers: every entry of the classifier's result list is reported
\* with is_anomaly true and confidence 0, whatever its flag; the response is yellow.
C30_EveryEntryFlagged ==
    (Ran("ml_based") /\ models_loaded) =>
        LET summary == last.ret.summary
        IN /\ Len(last.ret.ml_detection) = Len(last.ml_results)
           /\ \A i \in 1..Len(last.ml_results) :
                 /\ last.ret.ml_detection[i].is_anomaly
                 /\ last.ret.ml_detection[i].confidence = 0
           /\ summary.ml_anomalies_found
           /\ summary.total_anomalies = Len(last.ml_results)
           /\ summary.alert_level = "yellow"

----------------------------------------------------------------------------
(* What a detection leaves alone: a cache hit, and input that                *)
(* validate_sensor_data rejects.                                             *)

\* the step is a call of detect_anomalies_hybrid answered from the cache
CacheHitStep ==
    /\ calls' = calls + 1
    /\ last'.op = "hybrid"
    /\ last'.from_cache

\* C27: a cache hit in detect_anomalies_hybrid changes nothing except cache_hits: the
\* history window is not appended to, no rule or classifier evaluation runs, no cache
\* entry is added or renewed, and the verdict returned is the one stored earlier under
\* the fingerprint of the reading.
C27_CacheHitFrame ==
    [][CacheHitStep =>
          LET cache_key == GenerateCacheKey(last'.sensor_data.items[1])
          IN /\ cache_key \in CacheKeys(_prediction_cache)
             /\ last'.ret = CacheEntry(_prediction_cache, cache_key).result
             /\ last'.analysis = <<>>
             /\ _data_history' = _data_history
             /\ _prediction_cache' = _prediction_cache
             /\ performance_metrics' =
                   [performance_metrics EXCEPT !.cache_hits = @ + 1]]_vars

\* a hit on an entry stored at an earlier time, by a service that has ingested a reading
C27_Witness ==
    /\ last.op = "hybrid"
    /\ last.from_cache
    /\ performance_metrics.cache_hits = 1
    /\ Len(_data_history) = 1
    /\ \E i \in 1..Len(_prediction_cache) :
          /\ _prediction_cache[i].key = GenerateCacheKey(last.sensor_data.items[1])
          /\ _prediction_cache[i].timestamp < now

MaxRejectCalls == 3

\* 1500 degrees: beyond what validate_sensor_data lets pass
Extreme == MakeReading([temperature |-> 150000, humidity |-> 6500, voltage |-> 330])

\* every sensor is None
AllNone == MakeReading([temperature |-> NoneVal, humidity |-> NoneVal,
                        voltage |-> NoneVal])

\* an empty list, readings without a usable sensor, a reading out of every range, a list
\* with such a reading
RejectedInputs ==
    {AsList(<<>>), AsDict(NoSensors), AsDict(AllNone), AsList(<<AllNone>>),
     AsDict(Extreme), AsList(<<Normal, Extreme>>)}

AcceptedInputs == {AsList(<<Normal>>), AsDict(TempOnly), AsDict(Flat)}

InitReject ==
    /\ InitCommon
    /\ last = Idle
    /\ models_loaded \in BOOLEAN
    /\ _cache_max_size = MaxCacheSize

NextReject ==
    \/ \E sensor_data \in RejectedInputs \cup AcceptedInputs, use_cache \in BOOLEAN :
          \E ml \in WindowMlOutcomes :
             /\ calls < MaxRejectCalls
             /\ DetectHybrid(sensor_data, use_cache, ml)
             /\ UNCHANGED reference
    \/ Tick

SpecReject == InitReject /\ [][NextReject]_vars

\* the step is a call of detect_anomalies_hybrid on input that is to be rejected
RejectedStep ==
    /\ calls' = calls + 1
    /\ last'.op = "hybrid"
    /\ last'.sensor_data \in RejectedInputs

\* C28: detect_anomalies_hybrid on input rejected by validate_sensor_data returns an error
\* object with 'error' and 'timestamp' and leaves the prediction cache, the history
\* window and every performance counter unchanged.
C28_RejectedInputFrame ==
    [][RejectedStep =>
          /\ last'.ret.kind = "error"
          /\ {"error", "timestamp"} \subseteq DOMAIN last'.ret
          /\ "summary" \notin DOMAIN last'.ret
          /\ last'.analysis = <<>>
          /\ UNCHANGED <<_prediction_cache, _data_history, performance_metrics>>]_vars

\* input is rejected by a service that holds a cache entry, a window and counts
C28_Witness ==
    /\ last.op = "hybrid"
    /\ last.sensor_data \in RejectedInputs
    /\ last.ret.kind = "error"
    /\ _prediction_cache # <<>>
    /\ Len(_data_history) = 2
    /\ performance_metrics.cache_misses = 1

====
